---- MODULE Spec2Model ----
(***************************************************************************)
(* Respiratory-event analysis of SleepSense: the windowed classifier       *)
(* (OSAAnalysis.detect_respiratory_events) and the whole-study analysis    *)
(* (SleepAnalysis.analyze_full_study), each scanned one sample per step.   *)
(* The SignalProcessor's rate estimate and normalization feed them.        *)
(*                                                                         *)
(* Units.  The source computes on floats; the model is exact:              *)
(*   time       milliseconds          (10.0 s is 10000)                    *)
(*   amplitude  hundredths            (0.1 is 10, 0.3 is 30, 1.0 is 100)   *)
(*   rate       millihertz            (10.0 Hz is 10000, 0.25 Hz is 250)   *)
(*   per-hour indices are exact fractions <<numerator, denominator>>.      *)
(* Sequences are 1-based: Python's sample i is index i + 1 here.           *)
(***************************************************************************)
EXTENDS Integers, Sequences, FiniteSets, TLC

VARIABLES
    raw_signals,      \* the raw channel table the loader extracted (time in ms)
    sp_sample_rate,   \* SignalProcessor.sample_rate
    signals,          \* the normalized channel set handed to both analyses
    sample_rate,      \* SleepAnalysis.sample_rate
    osa_sample_rate,  \* OSAAnalysis.sample_rate (stored, never read by the scan)
    detected_events,  \* OSAAnalysis.detected_events, the per-instance buffer
    osa,              \* the frame of detect_respiratory_events (pc and locals)
    returned,         \* what the most recent completed OSAAnalysis call returned
    sa,               \* the frame of analyze_full_study (pc and locals)
    results,          \* <<>> or <<the mapping the last analyze_full_study returned>>
    kept,             \* what the caller holds of an earlier call: a copy of the
                      \* event list, or the signals passed and the mapping returned
    threads,          \* per thread sharing the OSAAnalysis instance: the frame of
                      \* its detect_respiratory_events call, what the call
                      \* returned, and whether it overlapped another thread's call
    settings          \* AppSettings: the view window and the study bounds (ms)

vars == <<raw_signals, sp_sample_rate, signals, sample_rate, osa_sample_rate, detected_events, osa, returned,
          sa, results, kept, threads, settings>>

(***************************************************************************)
(* Bounds of the checked instances.                                        *)
(***************************************************************************)
MaxLen == 5

\* Sample rates of the bounded studies: 0.25 Hz (10 * rate = 2.5) and 0.4 Hz
\* (10 * rate = 4).
Rates == {250, 400}

\* Amplitudes of the bounded studies: inside the apnea band, the 0.1 boundary,
\* the 0.3 boundary, and recovered.
FlowVals == {5, 10, 30, 100}

\* The empty channel table: {}.
NoSignals == <<>>

\* The sampling period, in milliseconds, of a study sampled at `rate`.
MsPerSample(rate) == 1000000 \div rate

\* A study of n samples on a uniform time axis starting at 0: the loader's
\* millisecond column.  Body position is supine, activity is above the REM
\* threshold, and the oximetry, snore and pulse channels are flat throughout.
Study(n, rate, flow) ==
    [time |-> [k \in 1..n |-> (k - 1) * MsPerSample(rate)],
     flow_n |-> flow,
     body_pos_n |-> [k \in 1..n |-> 0],
     activity_n |-> [k \in 1..n |-> 50],
     spo2_n |-> [k \in 1..n |-> 80],
     snore_n |-> [k \in 1..n |-> 0],
     pulse_n |-> [k \in 1..n |-> 30]]

(***************************************************************************)
(* OSAAnalysis.detect_respiratory_events: thresholds.                      *)
(***************************************************************************)
flow_threshold_apnea == 10

flow_threshold_hypopnea == 30

min_duration == 10000

NoTime == 0 - 1

\* Variant: a start bound before the first sample is not clipped to the start
\* of the data; the slice it gives is empty.
SearchSortedLeftUnclipped(ts, v) ==
    IF Len(ts) > 0 /\ v < ts[1] THEN Len(ts)
    ELSE Cardinality({k \in DOMAIN ts : ts[k] < v})

\* time_series.searchsorted(v, side='left'): the number of samples before v.
SearchSortedLeft(ts, v) == Cardinality({k \in DOMAIN ts : ts[k] < v})

\* Variant: the end of the slice found with side='left', which leaves out a
\* sample lying exactly on the bound.
SearchSortedRightAsLeft(ts, v) == Cardinality({k \in DOMAIN ts : ts[k] < v})

\* time_series.searchsorted(v, side='right'): the number of samples up to v.
SearchSortedRight(ts, v) == Cardinality({k \in DOMAIN ts : ts[k] <= v})

\* Variant: the hypopnea threshold is tested first, so the apnea branch is
\* never taken.
OsaEntryTypeHypopneaFirst(flow_val) ==
    IF flow_val < flow_threshold_hypopnea THEN "Hypopnea"
    ELSE IF flow_val < flow_threshold_apnea THEN "Apnea"
    ELSE "None"

\* The band test that opens an episode: apnea first, then hypopnea.
OsaEntryType(flow_val) ==
    IF flow_val < flow_threshold_apnea THEN "Apnea"
    ELSE IF flow_val < flow_threshold_hypopnea THEN "Hypopnea"
    ELSE "None"

\* The test that ends an open episode.
OsaEventEnded(flow_val) == flow_val > flow_threshold_hypopnea

\* Variant: the gate compares the duration with a sample count at 10 Hz
\* (100 samples) as if it were seconds.
OsaPassesGateInSamples(event_duration) == event_duration >= 10 * min_duration

\* The duration gate.
OsaPassesGate(event_duration) == event_duration >= min_duration

OsaIdleFrame ==
    [pc |-> "idle", start_time |-> 0, end_time |-> 0, start_idx |-> 0, end_idx |-> 0,
     i |-> 0, in_event |-> FALSE, event_start |-> NoTime, event_type |-> "None"]

\* Variant: an open episode is re-classified by every in-band sample.
OsaStepSampleReclassify(loc, buf, time_val, flow_val) ==
    IF ~loc.in_event
    THEN IF OsaEntryType(flow_val) # "None"
         THEN [loc |-> [loc EXCEPT !.in_event = TRUE, !.event_start = time_val,
                                   !.event_type = OsaEntryType(flow_val)],
               buf |-> buf]
         ELSE [loc |-> loc, buf |-> buf]
    ELSE IF OsaEventEnded(flow_val)
         THEN LET event_duration == time_val - loc.event_start
              IN  [loc |-> [loc EXCEPT !.in_event = FALSE, !.event_start = NoTime,
                                       !.event_type = "None"],
                   buf |-> IF OsaPassesGate(event_duration)
                           THEN Append(buf, [type |-> loc.event_type,
                                             start_time |-> loc.event_start,
                                             end_time |-> time_val,
                                             duration |-> event_duration])
                           ELSE buf]
         ELSE [loc |-> IF OsaEntryType(flow_val) # "None"
                       THEN [loc EXCEPT !.event_type = OsaEntryType(flow_val)]
                       ELSE loc,
               buf |-> buf]

\* One iteration of the scan loop on (time_val, flow_val): the new locals and
\* the new buffer.
OsaStepSample(loc, buf, time_val, flow_val) ==
    IF ~loc.in_event
    THEN IF OsaEntryType(flow_val) # "None"
         THEN [loc |-> [loc EXCEPT !.in_event = TRUE, !.event_start = time_val,
                                   !.event_type = OsaEntryType(flow_val)],
               buf |-> buf]
         ELSE [loc |-> loc, buf |-> buf]
    ELSE IF OsaEventEnded(flow_val)
         THEN LET event_duration == time_val - loc.event_start
              IN  [loc |-> [loc EXCEPT !.in_event = FALSE, !.event_start = NoTime,
                                       !.event_type = "None"],
                   buf |-> IF OsaPassesGate(event_duration)
                           THEN Append(buf, [type |-> loc.event_type,
                                             start_time |-> loc.event_start,
                                             end_time |-> time_val,
                                             duration |-> event_duration])
                           ELSE buf]
         ELSE [loc |-> loc, buf |-> buf]

\* Variant: the buffer is not cleared.
OsaNotCleared(buf) == buf

\* Variant: the buffer keeps its events when it already holds some, so a call
\* appends to what the call before it left.
OsaClearedWhenEmpty(buf) == IF Len(buf) > 0 THEN buf ELSE <<>>

\* self.detected_events.clear().
OsaCleared(buf) == <<>>

NothingReturned == [op |-> "none", value |-> <<>>]

\* The caller holds no copy of an event list.
NothingKept == [op |-> "none", start_time |-> 0, end_time |-> 0, value |-> <<>>]

\* Variant: an episode still open when the slice ends is flushed into the
\* buffer, ending at the window's end_time.
OsaReturnedFlush(loc, buf) ==
    IF loc.in_event /\ OsaPassesGate(loc.end_time - loc.event_start)
    THEN Append(buf, [type |-> loc.event_type, start_time |-> loc.event_start,
                      end_time |-> loc.end_time,
                      duration |-> loc.end_time - loc.event_start])
    ELSE buf

\* The buffer as detect_respiratory_events hands it back.
OsaReturned(loc, buf) == buf

\* The threads that share one instance, none of them in a call.
Threads == {"a", "b"}

NoThreads ==
    [th \in Threads |->
        [osa |-> OsaIdleFrame, returned |-> NothingReturned, overlapped |-> FALSE]]

\* get_event_summary on a buffer.
EventSummary(buf) ==
    [total_events |-> Len(buf),
     apnea_count |-> Cardinality({k \in DOMAIN buf : buf[k].type = "Apnea"}),
     hypopnea_count |-> Cardinality({k \in DOMAIN buf : buf[k].type = "Hypopnea"})]

\* get_events_in_timeframe on a buffer.
EventsInTimeframe(buf, start_time, end_time) ==
    SelectSeq(buf, LAMBDA e : e.start_time >= start_time /\ e.end_time <= end_time)

(***************************************************************************)
(* SleepAnalysis.analyze_full_study.                                       *)
(***************************************************************************)
\* Exact fractions <<numerator, denominator>> in lowest terms stand for the
\* source's floats; a zero denominator stands for the inf or nan of a float
\* division by zero.
RECURSIVE GCD(_, _)
GCD(a, b) == IF b = 0 THEN a ELSE GCD(b, a % b)

Frac(n, d) ==
    LET g == GCD(n, d)
    IN  IF g = 0 THEN <<0, 0>> ELSE <<n \div g, d \div g>>

FracMul(a, b) ==
    LET g1 == GCD(a[1], b[2])
        g2 == GCD(b[1], a[2])
        h1 == IF g1 = 0 THEN 1 ELSE g1
        h2 == IF g2 = 0 THEN 1 ELSE g2
    IN  Frac((a[1] \div h1) * (b[1] \div h2), (a[2] \div h2) * (b[2] \div h1))

FracLess(a, b) == a[1] * b[2] < b[1] * a[2]

is_apnea(f) == f < 10

is_hypopnea(f) == (f >= 10) /\ (f < 30)

\* Variant: the upper bound of the flow-limitation band is inclusive.
is_flow_limitation_upto(f) == (f >= 30) /\ (f <= 50)

is_flow_limitation(f) == (f >= 30) /\ (f < 50)

\* int(10 * self.sample_rate): int() truncates.
min_samples(rate) == (10 * rate) \div 1000

\* (i - event_start_index) / self.sample_rate, in milliseconds.
SaEventDuration(n, rate) == (n * 1000000) \div rate

\* position_counts[pos] += 1 on a dictionary that grows with the codes seen.
CountPosition(position_counts, pos) ==
    IF pos \in DOMAIN position_counts
    THEN [position_counts EXCEPT ![pos] = @ + 1]
    ELSE position_counts @@ (pos :> 1)

Max(a, b) == IF a >= b THEN a ELSE b

SaIdleFrame ==
    [pc |-> "idle", i |-> 0, in_event |-> FALSE, min_samples |-> 0,
     event_start_index |-> 0 - 1, event_type |-> "None",
     apneas |-> 0, hypopneas |-> 0, flow_limitations |-> 0,
     apnea_durations |-> <<>>, hypopnea_durations |-> <<>>,
     max_apnea_duration |-> 0, max_hypopnea_duration |-> 0,
     position_counts |-> <<>>,
     position_events |-> [supine |-> [apneas |-> 0, hypopneas |-> 0],
                          non_supine |-> [apneas |-> 0, hypopneas |-> 0]],
     rem_apneas |-> 0, rem_hypopneas |-> 0, nrem_apneas |-> 0, nrem_hypopneas |-> 0]

\* The elapsed-sample gate of the whole-study scan.
SaPassesGate(elapsed, minSamples) == elapsed >= minSamples

\* Variant: a counted episode is bucketed by the position and the activity of
\* the sample that opened it.
SaCloseEventAtEntry(loc, sig, rate, i, pos) ==
    LET elapsed == i - loc.event_start_index
        event_duration == SaEventDuration(elapsed, rate)
        entry == loc.event_start_index + 1
        where == IF sig.body_pos_n[entry] \div 100 = 0 THEN "supine" ELSE "non_supine"
        rem == sig.activity_n[entry] < 20
        closed == [loc EXCEPT !.in_event = FALSE]
    IN  IF ~SaPassesGate(elapsed, loc.min_samples) THEN closed
        ELSE IF loc.event_type = "apnea"
        THEN [closed EXCEPT
                !.apneas = @ + 1,
                !.apnea_durations = Append(@, event_duration),
                !.max_apnea_duration = Max(@, event_duration),
                !.position_events[where].apneas = @ + 1,
                !.rem_apneas = IF rem THEN @ + 1 ELSE @,
                !.nrem_apneas = IF rem THEN @ ELSE @ + 1]
        ELSE [closed EXCEPT
                !.hypopneas = @ + 1,
                !.hypopnea_durations = Append(@, event_duration),
                !.max_hypopnea_duration = Max(@, event_duration),
                !.position_events[where].hypopneas = @ + 1,
                !.rem_hypopneas = IF rem THEN @ + 1 ELSE @,
                !.nrem_hypopneas = IF rem THEN @ ELSE @ + 1]

\* The branch taken when sample i ends the open episode: count it, or drop it.
SaCloseEvent(loc, sig, rate, i, pos) ==
    LET elapsed == i - loc.event_start_index
        event_duration == SaEventDuration(elapsed, rate)
        where == IF pos = 0 THEN "supine" ELSE "non_supine"
        rem == sig.activity_n[i + 1] < 20
        closed == [loc EXCEPT !.in_event = FALSE]
    IN  IF ~SaPassesGate(elapsed, loc.min_samples) THEN closed
        ELSE IF loc.event_type = "apnea"
        THEN [closed EXCEPT
                !.apneas = @ + 1,
                !.apnea_durations = Append(@, event_duration),
                !.max_apnea_duration = Max(@, event_duration),
                !.position_events[where].apneas = @ + 1,
                !.rem_apneas = IF rem THEN @ + 1 ELSE @,
                !.nrem_apneas = IF rem THEN @ ELSE @ + 1]
        ELSE [closed EXCEPT
                !.hypopneas = @ + 1,
                !.hypopnea_durations = Append(@, event_duration),
                !.max_hypopnea_duration = Max(@, event_duration),
                !.position_events[where].hypopneas = @ + 1,
                !.rem_hypopneas = IF rem THEN @ + 1 ELSE @,
                !.nrem_hypopneas = IF rem THEN @ ELSE @ + 1]

\* The type given to an episode by the sample that opens it.
SaEntryType(f) == IF is_apnea(f) THEN "apnea" ELSE "hypopnea"

\* One iteration of the scan loop, on sample loc.i.
SaStepSample(loc, sig, rate) ==
    LET i == loc.i
        f == sig.flow_n[i + 1]
        pos == IF i < Len(sig.body_pos_n) THEN sig.body_pos_n[i + 1] \div 100 ELSE 0
        counted == [loc EXCEPT !.position_counts = CountPosition(@, pos)]
        inBand == is_apnea(f) \/ is_hypopnea(f)
        scanned ==
            IF ~loc.in_event /\ inBand
            THEN [counted EXCEPT !.in_event = TRUE, !.event_start_index = i,
                                 !.event_type = SaEntryType(f)]
            ELSE IF loc.in_event /\ ~inBand
            THEN SaCloseEvent(counted, sig, rate, i, pos)
            ELSE counted
    IN  [scanned EXCEPT
            !.flow_limitations = IF is_flow_limitation(f) THEN @ + 1 ELSE @,
            !.i = i + 1]

\* Variant: the index is taken per second of the study, not per hour.
PerSecond(x, tib_ms) == IF tib_ms > 0 THEN Frac(x * 1000, tib_ms) ELSE Frac(0, 1)

\* Variant: the division is not guarded.
PerHourUnguarded(x, tib_ms) == Frac(x * 3600000, tib_ms)

\* x / tib_hours if tib_hours > 0 else 0, with tib_hours = tib_ms / 3600000.
PerHour(x, tib_ms) == IF tib_ms > 0 THEN Frac(x * 3600000, tib_ms) ELSE Frac(0, 1)

\* (count / total_samples) * 100 if total_samples > 0 else 0.
Percent(count, total_samples) ==
    IF total_samples > 0 THEN Frac(count * 100, total_samples) ELSE Frac(0, 1)

\* The sum of q[lo..hi], by halves.
RECURSIVE SumRange(_, _, _)
SumRange(q, lo, hi) ==
    IF lo > hi THEN 0
    ELSE IF lo = hi THEN q[lo]
    ELSE LET mid == (lo + hi) \div 2
         IN  SumRange(q, lo, mid) + SumRange(q, mid + 1, hi)

SumSeq(q) == SumRange(q, 1, Len(q))

\* np.mean(durations) if durations else 0.
MeanOrZero(durations) ==
    IF Len(durations) > 0 THEN Frac(SumSeq(durations), Len(durations)) ELSE Frac(0, 1)

CountOf(position_counts, pos) ==
    IF pos \in DOMAIN position_counts THEN position_counts[pos] ELSE 0

\* Events per hour of one sleep stage: events / (tib_hours * percent / 100) if
\* percent > 0 else 0.  The divisor is zero when tib_hours is; the fraction then
\* has denominator 0, as the float quotient is inf or nan.
StageIndex(events, tib_ms, percent) ==
    IF percent[1] > 0
    THEN FracMul(Frac(events * 3600000, tib_ms), Frac(100 * percent[2], percent[1]))
    ELSE Frac(0, 1)

CountAbove(q, x) == Cardinality({k \in DOMAIN q : q[k] > x})

CountBelow(q, x) == Cardinality({k \in DOMAIN q : q[k] < x})

MinOf(q) == CHOOSE x \in {q[k] : k \in DOMAIN q} : \A k \in DOMAIN q : x <= q[k]

MaxOf(q) == CHOOSE x \in {q[k] : k \in DOMAIN q} : \A k \in DOMAIN q : x >= q[k]

\* The j-th smallest element of q.
KthSmallest(q, j) ==
    CHOOSE x \in {q[k] : k \in DOMAIN q} :
        /\ Cardinality({k \in DOMAIN q : q[k] < x}) < j
        /\ Cardinality({k \in DOMAIN q : q[k] <= x}) >= j

\* np.median: the middle element, or the mean of the two middle elements.
MedianOf(q) ==
    IF Len(q) % 2 = 1
    THEN Frac(KthSmallest(q, (Len(q) + 1) \div 2), 1)
    ELSE Frac(KthSmallest(q, Len(q) \div 2) + KthSmallest(q, Len(q) \div 2 + 1), 2)

\* 85 + normalized_spo2 * 15, in hundredths of a percentage point.
Spo2Original(spo2_n) == [k \in DOMAIN spo2_n |-> 8500 + 15 * spo2_n[k]]

\* 50 + normalized_pulse * 70, in hundredths of a beat per minute.
PulseOriginal(pulse_n) == [k \in DOMAIN pulse_n |-> 5000 + 70 * pulse_n[k]]

\* Variant: a drop of exactly 3 points counts as well.
DesaturationsFromThree(spo2) ==
    Cardinality({k \in DOMAIN spo2 : k > 1 /\ spo2[k] - spo2[k - 1] <= 0 - 300})

\* (spo2_original.diff() < -3).sum(): the single-step drops of more than 3.
Desaturations(spo2) ==
    Cardinality({k \in DOMAIN spo2 : k > 1 /\ spo2[k] - spo2[k - 1] < 0 - 300})

\* The mapping analyze_full_study returns, from the locals left by the scan.
SaResults(loc, sig) ==
    LET tib_ms == sig.time[Len(sig.time)] - sig.time[1]
        total_samples == Len(sig.body_pos_n)
        rem_count == Cardinality({k \in DOMAIN sig.activity_n : sig.activity_n[k] < 20})
        rem_percent == Frac(rem_count * 100, Len(sig.activity_n))
        nrem_percent == Frac(100 * Len(sig.activity_n) - rem_count * 100,
                             Len(sig.activity_n))      \* 100 - rem_percent
        total_events == loc.apneas + loc.hypopneas
        artifacts == Cardinality({k \in DOMAIN sig.flow_n : sig.flow_n[k] > 95})
                     + Cardinality({k \in DOMAIN sig.flow_n : sig.flow_n[k] < 5})
        spo2_original == Spo2Original(sig.spo2_n)
        desaturations == Desaturations(spo2_original)
        snore_events == CountAbove(sig.snore_n, 70)
        pulse_original == PulseOriginal(sig.pulse_n)
    IN  [tib_hours |-> Frac(tib_ms, 3600000),
         patient_id |-> "11",
         recording_date |-> "25-08-2025",
         ahi |-> PerHour(total_events, tib_ms),
         rdi |-> PerHour(total_events + loc.flow_limitations, tib_ms),
         obstructive_apneas |-> (loc.apneas * 3) \div 4,
         central_apneas |-> loc.apneas - ((loc.apneas * 3) \div 4),
         hypopneas |-> loc.hypopneas,
         total_apneas |-> loc.apneas,
         flow_limitations |-> loc.flow_limitations,
         max_apnea_duration |-> loc.max_apnea_duration,
         max_hypopnea_duration |-> loc.max_hypopnea_duration,
         avg_apnea_duration |-> MeanOrZero(loc.apnea_durations),
         avg_hypopnea_duration |-> MeanOrZero(loc.hypopnea_durations),
         supine_percent |-> Percent(CountOf(loc.position_counts, 0), total_samples),
         left_percent |-> Percent(CountOf(loc.position_counts, 1), total_samples),
         right_percent |-> Percent(CountOf(loc.position_counts, 2), total_samples),
         prone_percent |-> Percent(CountOf(loc.position_counts, 3), total_samples),
         other_positions |->
             [pos \in {p \in DOMAIN loc.position_counts : p > 3} |->
                 Percent(loc.position_counts[pos], total_samples)],
         supine_apneas |-> loc.position_events.supine.apneas,
         supine_hypopneas |-> loc.position_events.supine.hypopneas,
         non_supine_apneas |-> loc.position_events.non_supine.apneas,
         non_supine_hypopneas |-> loc.position_events.non_supine.hypopneas,
         rem_percent |-> rem_percent,
         nrem_percent |-> nrem_percent,
         rem_apneas |-> loc.rem_apneas,
         rem_hypopneas |-> loc.rem_hypopneas,
         nrem_apneas |-> loc.nrem_apneas,
         nrem_hypopneas |-> loc.nrem_hypopneas,
         rem_ahi |-> StageIndex(loc.rem_apneas + loc.rem_hypopneas, tib_ms, rem_percent),
         nrem_ahi |-> StageIndex(loc.nrem_apneas + loc.nrem_hypopneas, tib_ms,
                                 nrem_percent),
         artifact_percent |-> Frac(artifacts * 100, Len(sig.flow_n)),
         min_spo2 |-> MinOf(spo2_original),
         avg_spo2 |-> Frac(SumSeq(spo2_original), Len(spo2_original)),
         baseline_spo2 |-> MedianOf(spo2_original),
         desat_count |-> desaturations,
         desat_index |-> PerHour(desaturations, tib_ms),
         time_below_90 |->
             Frac(CountBelow(spo2_original, 9000) * 100, Len(spo2_original)),
         snore_index |-> PerHour(snore_events, tib_ms),
         min_hr |-> MinOf(pulse_original),
         max_hr |-> MaxOf(pulse_original),
         avg_hr |-> Frac(SumSeq(pulse_original), Len(pulse_original))]

(***************************************************************************)
(* SignalProcessor.  Normalized amplitudes are in hundredths, rounded      *)
(* down: exact wherever the analyses compare them with a threshold from    *)
(* below, and for body position, which is only read through int().         *)
(***************************************************************************)
\* The rate taken from the mean step instead of the median step.
ComputedRateFromMean(t) ==
    IF Len(t) < 3 THEN 10000
    ELSE LET dt == Frac(t[Len(t)] - t[1], Len(t) - 1)
         IN  IF dt[1] <= 0 THEN 10000 ELSE (1000000 * dt[2]) \div dt[1]

\* What compute_sampling_rate leaves in self.sample_rate for the time axis t
\* (in ms): 1 / median(diff(t)), or 10.0 Hz when the axis has fewer than 3
\* samples or the median step is not positive.
ComputedRate(t) ==
    IF Len(t) < 3 THEN 10000
    ELSE LET dt == MedianOf([k \in 1..(Len(t) - 1) |-> t[k + 1] - t[k]])
         IN  IF dt[1] <= 0 THEN 10000 ELSE (1000000 * dt[2]) \div dt[1]

\* compute_sampling_rate on a time axis as read, whose cells are numbers or
\* text: on an axis of at least 3 cells with text among them np.diff raises
\* and the handler sets 10.0 Hz.
ComputedRateRaw(time_series) ==
    IF Len(time_series) >= 3 /\ \E k \in DOMAIN time_series : time_series[k].kind = "text"
    THEN 10000
    ELSE ComputedRate([k \in DOMAIN time_series |-> time_series[k].v])

\* np.clip(x, 0.0, 1.0).
Clip(x) == IF x < 0 THEN 0 ELSE IF x > 100 THEN 100 ELSE x

\* A constant channel normalized with the equality test left out: every
\* quotient is 0.0 / 0.0, which numpy evaluates to nan (written -1) without
\* raising.
NormalizeDividingAlways(series) ==
    IF Len(series) = 0 THEN [k \in 1..100 |-> 50]
    ELSE LET min_val == MinOf(series)
             max_val == MaxOf(series)
         IN  IF min_val = max_val THEN [k \in 1..Len(series) |-> -1]
             ELSE [k \in 1..Len(series) |->
                      Clip(((series[k] - min_val) * 100) \div (max_val - min_val))]

\* The quotient taken over max instead of max - min.
NormalizeByMax(series) ==
    IF Len(series) = 0 THEN [k \in 1..100 |-> 50]
    ELSE LET min_val == MinOf(series)
             max_val == MaxOf(series)
         IN  IF min_val = max_val THEN [k \in 1..Len(series) |-> 50]
             ELSE [k \in 1..Len(series) |->
                      Clip(((series[k] - min_val) * 100) \div Max(1, max_val))]

\* normalize(series) on a numeric series with no missing value: 100 values of
\* 0.5 for an empty series, 0.5 throughout for a constant one, and otherwise
\* (x - min) / (max - min), clipped to [0, 1].
Normalize(series) ==
    IF Len(series) = 0 THEN [k \in 1..100 |-> 50]
    ELSE LET min_val == MinOf(series)
             max_val == MaxOf(series)
         IN  IF min_val = max_val THEN [k \in 1..Len(series) |-> 50]
             ELSE [k \in 1..Len(series) |->
                      Clip(((series[k] - min_val) * 100) \div (max_val - min_val))]

\* apply_moving_average(series, window_samples): the centered window sums of an
\* odd window of at least 3 samples, rescaled to [0, 1] (0.5 throughout when
\* they are all equal).  On a series shorter than the window np.convolve
\* returns window-many values, building the result on the series' index raises,
\* and the handler returns the series itself.
ApplyMovingAverage(series, window_samples) ==
    LET w3 == IF window_samples < 3 THEN 3 ELSE window_samples
        w == IF w3 % 2 = 0 THEN w3 + 1 ELSE w3
        h == (w - 1) \div 2
        n == Len(series)
        smoothed == [k \in 1..n |->
                       SumRange(series, Max(1, k - h), IF k + h > n THEN n ELSE k + h)]
    IN  IF n < w THEN series
        ELSE LET mn == MinOf(smoothed)
                 mx == MaxOf(smoothed)
             IN  IF mx - mn <= 0 THEN [k \in 1..n |-> 50]
                 ELSE [k \in 1..n |-> ((smoothed[k] - mn) * 100) \div (mx - mn)]

\* The cells of a raw channel as read from a file: a number, a missing value,
\* an infinity, or text that is no number.
Num(v) == [kind |-> "num", v |-> v]

NaN == [kind |-> "nan", v |-> 0]

PosInf == [kind |-> "inf", v |-> 0]

NegInf == [kind |-> "-inf", v |-> 0]

Text == [kind |-> "text", v |-> 0]

\* pd.to_numeric(series, errors='coerce') on a channel that is not numeric:
\* text becomes a missing value.
ToNumeric(series) ==
    [k \in DOMAIN series |-> IF series[k].kind = "text" THEN NaN ELSE series[k]]

\* series.replace([np.inf, -np.inf], np.nan).
ReplaceInf(series) ==
    [k \in DOMAIN series |->
        IF series[k].kind \in {"inf", "-inf"} THEN NaN ELSE series[k]]

IsNum(cell) == cell.kind = "num"

\* The numbers of a channel, in order (median skips the missing values).
ValidValues(series) ==
    LET valid == SelectSeq(series, IsNum)
    IN  [k \in DOMAIN valid |-> valid[k].v]

\* Twice the value the missing cells are filled with: the median of the
\* numbers, or 0.0 when there is none.
MedianVal2(series) ==
    IF Len(ValidValues(series)) = 0 THEN 0
    ELSE LET median_val == MedianOf(ValidValues(series))
         IN  IF median_val[2] = 2 THEN median_val[1] ELSE 2 * median_val[1]

\* The channel after cleaning, every value doubled so that a median between
\* two numbers stays whole (min-max normalization does not depend on the
\* scale).
Cleaned(series) ==
    LET numeric == ReplaceInf(ToNumeric(series))
    IN  [k \in DOMAIN numeric |->
            IF IsNum(numeric[k]) THEN 2 * numeric[k].v ELSE MedianVal2(numeric)]

\* normalize(series) on a channel as read: the cells are cleaned, then
\* normalized.  A null channel and an empty one take the same branch and are
\* both written <<>>.
NormalizeRaw(series) == Normalize(Cleaned(series))

\* normalize_all_signals on a table of a time axis and an airflow channel.
NormalizedSignalsRaw(raw, rate) ==
    LET flow_n == NormalizeRaw(raw.flow)
    IN  [time |-> raw.time,
         flow_n |-> flow_n,
         flow_plot |-> ApplyMovingAverage(flow_n, Max(3, rate \div 2000))]

\* f"{key}_n" for the channels of the raw tables.
NormalizedName ==
    [flow |-> "flow_n", body_pos |-> "body_pos_n", activity |-> "activity_n",
     spo2 |-> "spo2_n", snore |-> "snore_n", pulse |-> "pulse_n"]

\* The channel set normalize_all_signals builds from a raw table: time as it
\* is, every other channel the table has normalized under its name with _n
\* appended, and the smoothed airflow flow_plot if the table has airflow.
NormalizedSignals(raw, rate) ==
    LET channels == DOMAIN raw \ {"time"}
        names == {"time"} \cup {NormalizedName[key] : key \in channels}
                    \cup (IF "flow" \in channels THEN {"flow_plot"} ELSE {})
        KeyOf(name) == CHOOSE key \in channels : NormalizedName[key] = name
    IN  [name \in names |->
            IF name = "time" THEN raw.time
            ELSE IF name = "flow_plot"
                 THEN ApplyMovingAverage(Normalize(raw.flow), Max(3, rate \div 2000))
                 ELSE Normalize(raw[KeyOf(name)])]

(***************************************************************************)
(* The operations, one action each; a scan takes one step per sample.      *)
(* Calls are blocking: a call begins only when no other call is running.   *)
(***************************************************************************)
NoCallRunning == osa.pc # "scan" /\ sa.pc # "scan"

\* The window bounds a caller may pass: every sample time, and one sampling
\* period outside the study on either side.
WindowTimes ==
    LET n == Len(signals.time)
    IN  {signals.time[k] : k \in 1..n}
        \cup {signals.time[1] - MsPerSample(sample_rate),
              signals.time[n] + MsPerSample(sample_rate)}

\* compute_sampling_rate(signals['time']) on the raw table.
ComputeSamplingRate ==
    /\ NoCallRunning
    /\ raw_signals # NoSignals
    /\ sp_sample_rate' = ComputedRate(raw_signals.time)
    /\ UNCHANGED <<settings, threads, raw_signals, signals, sample_rate, osa_sample_rate, kept,
                   detected_events, osa, returned, sa, results>>

\* compute_sampling_rate(signals['time']) on a time axis as read; the call
\* returns nothing.
ComputeSamplingRateRaw ==
    /\ NoCallRunning
    /\ raw_signals # NoSignals
    /\ returned = NothingReturned
    /\ sp_sample_rate' = ComputedRateRaw(raw_signals.time)
    /\ returned' = [op |-> "compute_sampling_rate", value |-> <<>>]
    /\ UNCHANGED <<settings, threads, raw_signals, signals, sample_rate, osa_sample_rate, kept,
                   detected_events, osa, sa, results>>

\* normalize_all_signals(signals) on the raw table; the result becomes the
\* channel set the analyses are handed.
NormalizeAllSignals ==
    /\ NoCallRunning
    /\ raw_signals # NoSignals
    /\ signals' = NormalizedSignals(raw_signals, sp_sample_rate)
    /\ UNCHANGED <<settings, threads, raw_signals, sp_sample_rate, sample_rate, osa_sample_rate, kept,
                   detected_events, osa, returned, sa, results>>

DEFAULT_WINDOW_SIZE == 10000

\* The frame-size buttons, in seconds.
FRAME_SIZES == {5, 10, 30, 60, 120, 300, 600, 1800}

Min(a, b) == IF a < b THEN a ELSE b

\* AppSettings() before any data is loaded.
NoSettings ==
    [start_time |-> 0, window_size |-> DEFAULT_WINDOW_SIZE,
     data_start_time |-> 0, data_end_time |-> 0]

\* The settings as load_data leaves them for a study on the time axis time.
LoadedSettings(time) ==
    [start_time |-> time[1], window_size |-> DEFAULT_WINDOW_SIZE,
     data_start_time |-> time[1], data_end_time |-> time[Len(time)]]

\* step = max(0.5, window_size * 0.1).
KeyStep == Max(500, settings.window_size \div 10)

\* PlotManager.handle_key_press for the four navigation keys.
HandleKeyPress(key) ==
    /\ key \in {"Left", "Right", "Home", "End"}
    /\ LET data_start == settings.data_start_time
           data_end == settings.data_end_time
       IN  settings' =
              [settings EXCEPT !.start_time =
                 IF key = "Left" THEN Max(data_start, settings.start_time - KeyStep)
                 ELSE IF key = "Right"
                      THEN Min(data_end - settings.window_size,
                               settings.start_time + KeyStep)
                 ELSE IF key = "Home" THEN data_start
                 ELSE Max(data_start, data_end - settings.window_size)]
    /\ UNCHANGED <<threads, raw_signals, sp_sample_rate, signals, sample_rate,
                   osa_sample_rate, kept, detected_events, osa, returned, sa, results>>

\* RightPanel.set_frame_size_from_button(seconds).
SetFrameSizeFromButton(seconds) ==
    /\ LET window_size == seconds * 1000
           max_start == Max(settings.data_start_time,
                            settings.data_end_time - window_size)
       IN  settings' =
              [settings EXCEPT
                 !.window_size = window_size,
                 !.start_time = IF settings.start_time > max_start THEN max_start
                                ELSE settings.start_time]
    /\ UNCHANGED <<threads, raw_signals, sp_sample_rate, signals, sample_rate,
                   osa_sample_rate, kept, detected_events, osa, returned, sa, results>>

\* RightPanel.on_slider_changed(value), value in 0..1000.
OnSliderChanged(value) ==
    /\ LET data_start == settings.data_start_time
           data_end == settings.data_end_time
           available_range == Max(0, (data_end - data_start) - settings.window_size)
           new_start_time == data_start + (value * available_range) \div 1000
       IN  settings' =
              [settings EXCEPT !.start_time =
                 IF available_range <= 0 THEN data_start
                 ELSE Max(data_start,
                          Min(new_start_time, data_end - settings.window_size))]
    /\ UNCHANGED <<threads, raw_signals, sp_sample_rate, signals, sample_rate,
                   osa_sample_rate, kept, detected_events, osa, returned, sa, results>>

\* A column of n equal values.
Column(n, v) == [k \in 1..n |-> v]

\* _extract_current_format: time, body position, pulse, SpO2 and airflow come
\* from the file; snore and activity are generated waveforms (here at rest).
\* Only the channels the analyses read are kept.
ExtractCurrentFormat(time, flow) ==
    [time |-> time, body_pos |-> Column(Len(time), 0), pulse |-> Column(Len(time), 60),
     spo2 |-> Column(Len(time), 95), flow |-> flow,
     snore |-> Column(Len(time), 0), activity |-> Column(Len(time), 0)]

\* _extract_future_format: every channel comes from the file.
ExtractFutureFormat(time, flow) ==
    [time |-> time, snore |-> Column(Len(time), 1), flow |-> flow,
     spo2 |-> Column(Len(time), 95), pulse |-> Column(Len(time), 60),
     body_pos |-> Column(Len(time), 0), activity |-> Column(Len(time), 50)]

\* _create_emergency_signals: time, snore and airflow of generated data (here
\* its first samples, 0.1 s apart), and no other channel.
CreateEmergencySignals(n) ==
    [time |-> [k \in 1..n |-> (k - 1) * 100],
     snore |-> [k \in 1..n |-> k % 2],
     flow |-> [k \in 1..n |-> IF k % 2 = 0 THEN 200 ELSE 10]]

\* detect_data_format(data) on a table of num_columns columns.
DetectDataFormat(num_columns, time, flow) ==
    IF num_columns = 10 THEN ExtractCurrentFormat(time, flow)
    ELSE IF num_columns >= 12 THEN ExtractFutureFormat(time, flow)
    ELSE CreateEmergencySignals(Len(time))

\* load_data() of the main window on a file of num_columns columns: extract
\* the channels, estimate the rate from the time axis, normalize, and set the
\* view window to the start of the study.
LoadData(num_columns, time, flow) ==
    /\ NoCallRunning
    /\ raw_signals = NoSignals
    /\ raw_signals' = DetectDataFormat(num_columns, time, flow)
    /\ sp_sample_rate' = ComputedRate(raw_signals'.time)
    /\ signals' = NormalizedSignals(raw_signals', sp_sample_rate')
    /\ settings' = LoadedSettings(raw_signals'.time)
    /\ UNCHANGED <<threads, sample_rate, osa_sample_rate, kept, detected_events, osa,
                   returned, sa, results>>

\* normalize_all_signals(signals) on a table whose channel is as read.
NormalizeAllSignalsRaw ==
    /\ NoCallRunning
    /\ raw_signals # NoSignals
    /\ signals' = NormalizedSignalsRaw(raw_signals, sp_sample_rate)
    /\ UNCHANGED <<settings, threads, raw_signals, sp_sample_rate, sample_rate, osa_sample_rate, kept,
                   detected_events, osa, returned, sa, results>>

\* detect_respiratory_events(signals, start_time, end_time): clear the buffer,
\* slice the window, start the scan.
DetectBegin(start_time, end_time) ==
    /\ NoCallRunning
    /\ detected_events' = OsaCleared(detected_events)
    /\ osa' = [OsaIdleFrame EXCEPT
                 !.pc = "scan", !.start_time = start_time, !.end_time = end_time,
                 !.start_idx = SearchSortedLeft(signals.time, start_time),
                 !.end_idx = SearchSortedRight(signals.time, end_time),
                 !.i = SearchSortedLeft(signals.time, start_time)]
    /\ returned' = NothingReturned
    /\ UNCHANGED <<settings, threads, raw_signals, sp_sample_rate, signals, sample_rate,
                   osa_sample_rate, kept, sa, results>>

\* One iteration of the loop over the slice.
DetectStep ==
    /\ osa.pc = "scan"
    /\ osa.i < osa.end_idx
    /\ LET next == OsaStepSample(osa, detected_events, signals.time[osa.i + 1],
                                 signals.flow_n[osa.i + 1])
       IN  /\ osa' = [next.loc EXCEPT !.i = osa.i + 1]
           /\ detected_events' = next.buf
    /\ UNCHANGED <<settings, threads, raw_signals, sp_sample_rate, signals, sample_rate,
                   osa_sample_rate, kept, returned, sa, results>>

\* The loop is exhausted: return self.detected_events.  The locals are dropped;
\* the frame keeps the window of the call that returned.
DetectReturn ==
    /\ osa.pc = "scan"
    /\ ~(osa.i < osa.end_idx)
    /\ detected_events' = OsaReturned(osa, detected_events)
    /\ returned' = [op |-> "detect", value |-> OsaReturned(osa, detected_events)]
    /\ osa' = [OsaIdleFrame EXCEPT
                 !.pc = "returned", !.start_time = osa.start_time,
                 !.end_time = osa.end_time, !.start_idx = osa.start_idx,
                 !.end_idx = osa.end_idx]
    /\ UNCHANGED <<settings, threads, raw_signals, sp_sample_rate, signals, sample_rate,
                   osa_sample_rate, kept, sa, results>>

\* detect_respiratory_events called by thread th, which is in no call of its
\* own; other threads may be in the middle of theirs.  Two calls overlap when
\* one begins while the other is scanning.
ThreadDetectBegin(th, start_time, end_time) ==
    /\ threads[th].osa.pc # "scan"
    /\ detected_events' = OsaCleared(detected_events)
    /\ threads' =
          [u \in Threads |->
              IF u = th
              THEN [osa |-> [OsaIdleFrame EXCEPT
                               !.pc = "scan", !.start_time = start_time,
                               !.end_time = end_time,
                               !.start_idx = SearchSortedLeft(signals.time, start_time),
                               !.end_idx = SearchSortedRight(signals.time, end_time),
                               !.i = SearchSortedLeft(signals.time, start_time)],
                    returned |-> NothingReturned,
                    overlapped |-> \E o \in Threads \ {th} : threads[o].osa.pc = "scan"]
              ELSE [threads[u] EXCEPT
                      !.overlapped = @ \/ threads[u].osa.pc = "scan"]]
    /\ UNCHANGED <<settings, raw_signals, sp_sample_rate, signals, sample_rate,
                   osa_sample_rate, kept, osa, returned, sa, results>>

\* One iteration of thread th's loop, on the shared buffer.
ThreadDetectStep(th) ==
    /\ threads[th].osa.pc = "scan"
    /\ threads[th].osa.i < threads[th].osa.end_idx
    /\ LET loc == threads[th].osa
           next == OsaStepSample(loc, detected_events, signals.time[loc.i + 1],
                                 signals.flow_n[loc.i + 1])
       IN  /\ threads' = [threads EXCEPT ![th].osa = [next.loc EXCEPT !.i = loc.i + 1]]
           /\ detected_events' = next.buf
    /\ UNCHANGED <<settings, raw_signals, sp_sample_rate, signals, sample_rate,
                   osa_sample_rate, kept, osa, returned, sa, results>>

\* Thread th's loop is exhausted: return self.detected_events.
ThreadDetectReturn(th) ==
    /\ threads[th].osa.pc = "scan"
    /\ ~(threads[th].osa.i < threads[th].osa.end_idx)
    /\ LET loc == threads[th].osa
       IN  /\ detected_events' = OsaReturned(loc, detected_events)
           /\ threads' =
                 [threads EXCEPT
                    ![th].returned = [op |-> "detect",
                                      value |-> OsaReturned(loc, detected_events)],
                    ![th].osa = [OsaIdleFrame EXCEPT
                                   !.pc = "returned", !.start_time = loc.start_time,
                                   !.end_time = loc.end_time,
                                   !.start_idx = loc.start_idx,
                                   !.end_idx = loc.end_idx]]
    /\ UNCHANGED <<settings, raw_signals, sp_sample_rate, signals, sample_rate,
                   osa_sample_rate, kept, osa, returned, sa, results>>

\* clear_detected_events().
ClearDetectedEvents ==
    /\ NoCallRunning
    /\ detected_events' = OsaCleared(detected_events)
    /\ osa' = OsaIdleFrame
    /\ returned' = [op |-> "clear", value |-> <<>>]
    /\ UNCHANGED <<settings, threads, raw_signals, sp_sample_rate, signals, sample_rate,
                   osa_sample_rate, kept, sa, results>>

\* get_event_summary().
GetEventSummary ==
    /\ NoCallRunning
    /\ returned' = [op |-> "summary", value |-> EventSummary(detected_events)]
    /\ UNCHANGED <<settings, threads, raw_signals, sp_sample_rate, signals, sample_rate,
                   osa_sample_rate, kept, detected_events, osa, sa, results>>

\* get_events_in_timeframe(start_time, end_time).
GetEventsInTimeframe(start_time, end_time) ==
    /\ NoCallRunning
    /\ returned' = [op |-> "timeframe",
                    value |-> EventsInTimeframe(detected_events, start_time, end_time)]
    /\ UNCHANGED <<settings, threads, raw_signals, sp_sample_rate, signals, sample_rate,
                   osa_sample_rate, kept, detected_events, osa, sa, results>>

\* Variant: the counters are kept on the instance, so a call starts from what
\* the call before it counted.
AnalyzeBeginKeepingCounters ==
    /\ NoCallRunning
    /\ sa' = [sa EXCEPT !.pc = "scan", !.i = 0, !.in_event = FALSE,
                        !.min_samples = min_samples(sample_rate)]
    /\ UNCHANGED <<settings, threads, raw_signals, sp_sample_rate, signals, sample_rate,
                   osa_sample_rate, kept, detected_events, osa, returned, results>>

\* The channels analyze_full_study reads by key.
RequiredChannels ==
    {"time", "flow_n", "body_pos_n", "activity_n", "spo2_n", "snore_n", "pulse_n"}

\* analyze_full_study(signals): set up the counters, start the scan.  Reading
\* a channel the mapping does not have raises KeyError out of the call, which
\* then returns no mapping.
AnalyzeBegin ==
    /\ NoCallRunning
    /\ sa' = IF RequiredChannels \subseteq DOMAIN signals
             THEN [SaIdleFrame EXCEPT !.pc = "scan",
                                      !.min_samples = min_samples(sample_rate)]
             ELSE [SaIdleFrame EXCEPT !.pc = "raised"]
    /\ UNCHANGED <<settings, threads, raw_signals, sp_sample_rate, signals, sample_rate,
                   osa_sample_rate, kept, detected_events, osa, returned,
                   results>>

\* One iteration of the loop over range(len(flow)).
AnalyzeStep ==
    /\ sa.pc = "scan"
    /\ sa.i < Len(signals.flow_n)
    /\ sa' = SaStepSample(sa, signals, sample_rate)
    /\ UNCHANGED <<settings, threads, raw_signals, sp_sample_rate, signals, sample_rate,
                   osa_sample_rate, kept, detected_events, osa, returned,
                   results>>

\* Variant: when hours_in_bed is 0 the rate-based indices are left out of the
\* mapping instead of being set to 0.
AnalyzeFinishWithoutIndices ==
    /\ sa.pc = "scan"
    /\ ~(sa.i < Len(signals.flow_n))
    /\ LET r == SaResults(sa, signals)
           kept_keys == IF r.tib_hours[1] > 0 THEN DOMAIN r
                        ELSE DOMAIN r \ {"ahi", "rdi", "rem_ahi", "nrem_ahi",
                                         "desat_index", "snore_index"}
       IN  results' = <<[k \in kept_keys |-> r[k]]>>
    /\ sa' = [sa EXCEPT !.pc = "done"]
    /\ UNCHANGED <<settings, threads, raw_signals, sp_sample_rate, signals, sample_rate,
                   osa_sample_rate, kept, detected_events, osa, returned>>

\* The loop is exhausted: compute the indices and return the mapping.
AnalyzeFinish ==
    /\ sa.pc = "scan"
    /\ ~(sa.i < Len(signals.flow_n))
    /\ results' = <<SaResults(sa, signals)>>
    /\ sa' = [sa EXCEPT !.pc = "done"]
    /\ UNCHANGED <<settings, threads, raw_signals, sp_sample_rate, signals, sample_rate,
                   osa_sample_rate, kept, detected_events, osa, returned>>

(***************************************************************************)
(* Spec: every study of at most MaxLen samples, analysed whole and then    *)
(* queried window by window.                                               *)
(***************************************************************************)
Fresh ==
    /\ sp_sample_rate = 10000
    /\ detected_events = <<>>
    /\ osa = OsaIdleFrame
    /\ returned = NothingReturned
    /\ sa = SaIdleFrame
    /\ results = <<>>
    /\ kept = NothingKept
    /\ threads = NoThreads
    /\ settings = NoSettings

Init ==
    /\ raw_signals = NoSignals
    /\ \E n \in 1..MaxLen, rate \in Rates :
         \E flow \in [1..n -> FlowVals] :
            /\ signals = Study(n, rate, flow)
            /\ sample_rate = rate
            /\ osa_sample_rate = rate
    /\ Fresh

\* Windows of the queries: from the first or the second sample, to any sample
\* time or past the last one.
QueryStarts == {signals.time[k] : k \in {1, 2} \cap DOMAIN signals.time}

QueryEnds ==
    {signals.time[k] : k \in DOMAIN signals.time}
    \cup {signals.time[Len(signals.time)] + MsPerSample(sample_rate)}

Next ==
    \/ sa.pc = "idle" /\ AnalyzeBegin
    \/ AnalyzeStep
    \/ AnalyzeFinish
    \/ sa.pc = "done" /\ \E st \in QueryStarts, et \in QueryEnds : DetectBegin(st, et)
    \/ DetectStep
    \/ DetectReturn

Spec == Init /\ [][Next]_vars

(***************************************************************************)
(* Properties of the classifier, checked under Spec.                       *)
(***************************************************************************)
\* ceil(10 * sample_rate).
CeilMinSamples(rate) == (10 * rate + 999) \div 1000

\* The band of one amplitude, as the design states it.
BandOf(f) == IF f < 10 THEN "Apnea" ELSE IF f < 30 THEN "Hypopnea" ELSE "Recovered"

\* The sample (1-based) whose time is t.
SampleAt(t) == CHOOSE k \in DOMAIN signals.time : signals.time[k] = t

IsSampleTime(t) == \E k \in DOMAIN signals.time : signals.time[k] = t

EventsOf(buf) == {buf[k] : k \in DOMAIN buf}

\* The samples the running or returned windowed call has scanned so far.
OsaScanned ==
    IF osa.pc = "scan" THEN (osa.start_idx + 1)..osa.i
    ELSE IF osa.pc = "returned" THEN (osa.start_idx + 1)..osa.end_idx
    ELSE {}

\* The query covered the whole study.
WholeWindow ==
    /\ osa.start_time <= signals.time[1]
    /\ osa.end_time >= signals.time[Len(signals.time)]

\* C1: when a recovery sample closes an open episode, the episode is counted
\* (whole-study) or emitted (windowed) if and only if the number of samples from
\* the entry sample to the recovery sample is at least ceil(10 * sample_rate);
\* otherwise no counter and no list changes.
C1_MinDurationGate ==
    [][ /\ (sa.pc = "scan" /\ sa'.pc = "scan" /\ sa.in_event /\ ~sa'.in_event) =>
             IF sa.i - sa.event_start_index >= CeilMinSamples(sample_rate)
             THEN sa'.apneas + sa'.hypopneas = sa.apneas + sa.hypopneas + 1
             ELSE /\ sa'.apneas = sa.apneas
                  /\ sa'.hypopneas = sa.hypopneas
                  /\ sa'.apnea_durations = sa.apnea_durations
                  /\ sa'.hypopnea_durations = sa.hypopnea_durations
        /\ (osa.pc = "scan" /\ osa'.pc = "scan" /\ osa.in_event /\ ~osa'.in_event) =>
             IF osa.i - SearchSortedLeft(signals.time, osa.event_start)
                    >= CeilMinSamples(osa_sample_rate)
             THEN Len(detected_events') = Len(detected_events) + 1
             ELSE detected_events' = detected_events
      ]_vars

\* C2: in both modes the machine is in an episode after a scanned sample exactly
\* when that sample is below 0.3: a sample at or above 0.3 (0.3 included) closes
\* an open episode and never opens one; an episode opened by the sample has the
\* type of the sample's band.
C2_BandBoundaries ==
    /\ (sa.pc \in {"scan", "done"} /\ sa.i > 0) =>
          /\ sa.in_event <=> BandOf(signals.flow_n[sa.i]) # "Recovered"
          /\ (sa.in_event /\ sa.event_start_index = sa.i - 1) =>
                sa.event_type = (IF BandOf(signals.flow_n[sa.i]) = "Apnea"
                                 THEN "apnea" ELSE "hypopnea")
    /\ (osa.pc = "scan" /\ osa.i > osa.start_idx) =>
          /\ osa.in_event <=> BandOf(signals.flow_n[osa.i]) # "Recovered"
          /\ (osa.in_event /\ osa.event_start = signals.time[osa.i]) =>
                osa.event_type = BandOf(signals.flow_n[osa.i])

\* C3: the type of an episode, and of the event emitted or counted for it, is
\* the band of the sample that opened it, whatever bands the later samples of
\* the episode fall in.
C3_TypeOfOpenEpisode ==
    /\ (osa.pc = "scan" /\ osa.in_event) =>
          osa.event_type = BandOf(signals.flow_n[SampleAt(osa.event_start)])
    /\ \A e \in EventsOf(detected_events) :
          e.type = BandOf(signals.flow_n[SampleAt(e.start_time)])
    /\ (sa.pc = "scan" /\ sa.in_event) =>
          (sa.event_type = "apnea"
             <=> BandOf(signals.flow_n[sa.event_start_index + 1]) = "Apnea")

C3_TypeOfCountedEvent ==
    /\ sa'.apneas # sa.apneas =>
          /\ sa.in_event
          /\ BandOf(signals.flow_n[sa.event_start_index + 1]) = "Apnea"
          /\ sa'.apneas = sa.apneas + 1 /\ sa'.hypopneas = sa.hypopneas
    /\ sa'.hypopneas # sa.hypopneas =>
          /\ sa.in_event
          /\ BandOf(signals.flow_n[sa.event_start_index + 1]) = "Hypopnea"
          /\ sa'.hypopneas = sa.hypopneas + 1 /\ sa'.apneas = sa.apneas

\* C3: in every state an open episode and every emitted event carry the band
\* of the opening sample, and every step that counts an event counts it under
\* the band of the opening sample.
C3_TypeFixedAtEntry == []C3_TypeOfOpenEpisode /\ [][C3_TypeOfCountedEvent]_vars

\* C3 witness: both modes have finished on a study in which an episode opened
\* in the hypopnea band went through an apnea-band sample and was reported as a
\* hypopnea.
C3_Witness ==
    /\ sa.pc = "done" /\ osa.pc = "returned" /\ WholeWindow
    /\ results[1].hypopneas >= 1
    /\ \E e \in EventsOf(detected_events) :
          /\ e.type = "Hypopnea"
          /\ \E k \in SampleAt(e.start_time)..SampleAt(e.end_time) :
                signals.flow_n[k] < 10

\* The samples up to hi that end an episode: at or above 0.3, right after a
\* sample below 0.3.
Closings(hi) ==
    {k \in 2..hi : signals.flow_n[k] >= 30 /\ signals.flow_n[k - 1] < 30}

\* C4: only an episode closed by a recovery sample inside the scanned range
\* contributes an event.  Whole-study counts never exceed the number of closing
\* samples scanned; every windowed event ends on a scanned sample at or above
\* 0.3; and an episode that is open has put nothing into the buffer.
C4_OpenEpisodeNotEmitted ==
    /\ sa.pc \in {"scan", "done"} =>
          sa.apneas + sa.hypopneas <= Cardinality(Closings(sa.i))
    /\ results # <<>> =>
          results[1].total_apneas + results[1].hypopneas
             <= Cardinality(Closings(Len(signals.flow_n)))
    /\ \A e \in EventsOf(detected_events) :
          \E k \in OsaScanned :
             signals.time[k] = e.end_time /\ signals.flow_n[k] >= 30
    /\ (osa.pc = "scan" /\ osa.in_event) =>
          \A e \in EventsOf(detected_events) : e.end_time < osa.event_start

\* C4 witness: both modes have finished a study that stays below 0.3 from its
\* first sample to its last, for longer than the gate, and report no event.
C4_Witness ==
    /\ sa.pc = "done" /\ osa.pc = "returned" /\ WholeWindow
    /\ \A k \in DOMAIN signals.flow_n : signals.flow_n[k] < 30
    /\ Len(signals.flow_n) - 1 >= CeilMinSamples(sample_rate)
    /\ sa.in_event
    /\ results[1].total_apneas + results[1].hypopneas = 0
    /\ returned.op = "detect" /\ returned.value = <<>>

\* C5: every windowed event has duration = end_time - start_time >= 10 s, with
\* start_time and end_time the times of samples; every duration recorded by the
\* whole-study scan, hence the maximum and the average when events were
\* counted, is at least 10 s.
C5_DurationAtLeastTenSeconds ==
    /\ \A e \in EventsOf(detected_events) :
          /\ e.duration = e.end_time - e.start_time
          /\ e.duration >= 10000
          /\ IsSampleTime(e.start_time) /\ IsSampleTime(e.end_time)
    /\ \A k \in DOMAIN sa.apnea_durations : sa.apnea_durations[k] >= 10000
    /\ \A k \in DOMAIN sa.hypopnea_durations : sa.hypopnea_durations[k] >= 10000
    /\ results # <<>> =>
          /\ results[1].total_apneas > 0 =>
                /\ results[1].max_apnea_duration >= 10000
                /\ ~FracLess(results[1].avg_apnea_duration, Frac(10000, 1))
          /\ results[1].hypopneas > 0 =>
                /\ results[1].max_hypopnea_duration >= 10000
                /\ ~FracLess(results[1].avg_hypopnea_duration, Frac(10000, 1))

\* C6: on a uniformly sampled study whose rate is the configured sample_rate, a
\* windowed query over the whole study returns as many Apnea and Hypopnea
\* events as the whole-study analysis counted.
C6_ModesAgree ==
    (sa.pc = "done" /\ osa.pc = "returned" /\ WholeWindow) =>
       /\ EventSummary(detected_events).apnea_count = results[1].total_apneas
       /\ EventSummary(detected_events).hypopnea_count = results[1].hypopneas

\* The slice of the running or returned windowed call.
OsaSlice == (osa.start_idx + 1)..osa.end_idx

\* C8 as stated: the slice is the half-open window [start_time, end_time), so no
\* event ends on a sample whose time is end_time.
C8_HalfOpenWindow ==
    osa.pc \in {"scan", "returned"} =>
       /\ OsaSlice = {k \in DOMAIN signals.time :
                        signals.time[k] >= osa.start_time
                        /\ signals.time[k] < osa.end_time}
       /\ \A e \in EventsOf(detected_events) : e.end_time < osa.end_time

\* C8 amended: the slice is the closed window [start_time, end_time]; a sample
\* whose time is end_time is scanned like any other, and events end no later.
C8_ClosedWindow ==
    osa.pc \in {"scan", "returned"} =>
       /\ OsaSlice = {k \in DOMAIN signals.time :
                        signals.time[k] >= osa.start_time
                        /\ signals.time[k] <= osa.end_time}
       /\ osa.i <= osa.end_idx
       /\ \A e \in EventsOf(detected_events) :
             e.start_time >= osa.start_time /\ e.end_time <= osa.end_time

\* C8 witness: a query has returned an event that the sample lying exactly on
\* end_time closed.
C8_Witness ==
    /\ osa.pc = "returned"
    /\ \E e \in EventsOf(detected_events) : e.end_time = osa.end_time

(***************************************************************************)
(* SpecRef: the reference study, 600 samples at 10 Hz, amplitude 1.0 but   *)
(* 0.05 on samples 100..219 (indices 101..220 here), analysed whole and    *)
(* queried over [0, 20], [0, 30] and [0, 60] seconds.                      *)
(***************************************************************************)
RefFlow == [k \in 1..600 |-> IF k \in 101..220 THEN 5 ELSE 100]

RefWindowEnds == {20000, 30000, 60000}

InitRef ==
    /\ raw_signals = NoSignals
    /\ signals = Study(600, 10000, RefFlow)
    /\ sample_rate = 10000
    /\ osa_sample_rate = 10000
    /\ Fresh

NextRef ==
    \/ AnalyzeBegin
    \/ AnalyzeStep
    \/ AnalyzeFinish
    \/ \E et \in RefWindowEnds : DetectBegin(0, et)
    \/ DetectStep
    \/ DetectReturn

SpecRef == InitRef /\ [][NextRef]_vars

RefEvent ==
    [type |-> "Apnea", start_time |-> 10000, end_time |-> 22000, duration |-> 12000]

OsaReturnedFor(start_time, end_time) ==
    /\ osa.pc = "returned"
    /\ osa.start_time = start_time
    /\ osa.end_time = end_time

\* C7: on the reference study the whole-study analysis counts exactly one
\* event, an apnea of 12.0 s, with an AHI between 59 and 61 per hour, and the
\* windowed query over [0, 60) returns exactly the event {Apnea, 10.0, 22.0,
\* 12.0}.
C7_ReferenceScenario ==
    /\ sa.pc = "done" =>
          /\ sa.apnea_durations = <<12000>>
          /\ sa.hypopnea_durations = <<>>
    /\ results # <<>> =>
          /\ results[1].total_apneas = 1
          /\ results[1].hypopneas = 0
          /\ results[1].max_apnea_duration = 12000
          /\ results[1].avg_apnea_duration = Frac(12000, 1)
          /\ FracLess(Frac(59, 1), results[1].ahi)
          /\ FracLess(results[1].ahi, Frac(61, 1))
    /\ OsaReturnedFor(0, 60000) => detected_events = <<RefEvent>>

\* C7 witness: both modes have finished on the reference study.
C7_Witness ==
    /\ sa.pc = "done"
    /\ results # <<>>
    /\ OsaReturnedFor(0, 60000)
    /\ returned.op = "detect" /\ Len(returned.value) = 1

\* C9 as stated: the query over [0, 30) returns no events.
C9_NoEventInFirstHalf ==
    OsaReturnedFor(0, 30000) => detected_events = <<>>

\* C9 amended: the query over [0, 30) returns the one apnea, whose recovery
\* sample at 22.0 s lies inside the window; a query that ends before the
\* recovery sample, over [0, 20), returns no events.
C9_EventInFirstHalf ==
    /\ OsaReturnedFor(0, 30000) => detected_events = <<RefEvent>>
    /\ OsaReturnedFor(0, 20000) => detected_events = <<>>

\* C9 witness: the query over [0, 30) has returned one event.
C9_Witness ==
    /\ OsaReturnedFor(0, 30000)
    /\ returned.op = "detect" /\ Len(returned.value) = 1
    /\ returned.value[1].end_time < osa.end_time

(***************************************************************************)
(* SpecCalls: any sequence of calls on one OSAAnalysis instance, on every  *)
(* study of at most MaxCallLen samples 10 s apart.                         *)
(***************************************************************************)
MaxCallLen == 4

CallRates == {100}

CallFlowVals == {5, 10, 100}

InitCalls ==
    /\ raw_signals = NoSignals
    /\ \E n \in 1..MaxCallLen, rate \in CallRates :
         \E flow \in [1..n -> CallFlowVals] :
            /\ signals = Study(n, rate, flow)
            /\ sample_rate = rate
            /\ osa_sample_rate = rate
    /\ Fresh

NextCalls ==
    \/ \E st \in WindowTimes, et \in WindowTimes : DetectBegin(st, et)
    \/ DetectStep
    \/ DetectReturn
    \/ ClearDetectedEvents
    \/ GetEventSummary
    \/ \E st \in WindowTimes, et \in WindowTimes : GetEventsInTimeframe(st, et)

SpecCalls == InitCalls /\ [][NextCalls]_vars

\* What a call on a new instance returns for the window: the scan loop run from
\* fresh locals over an empty buffer.
RECURSIVE OsaScanFrom(_, _, _, _)
OsaScanFrom(loc, buf, i, end_idx) ==
    IF i < end_idx
    THEN LET next == OsaStepSample(loc, buf, signals.time[i + 1], signals.flow_n[i + 1])
         IN  OsaScanFrom(next.loc, next.buf, i + 1, end_idx)
    ELSE buf

WindowEvents(start_time, end_time) ==
    OsaScanFrom(OsaIdleFrame, <<>>, SearchSortedLeft(signals.time, start_time),
                SearchSortedRight(signals.time, end_time))

\* C10: whatever calls came before, the buffer right after a
\* detect_respiratory_events call holds exactly the events of that call's
\* window; get_event_summary then reports that call's counts; and after
\* clear_detected_events the buffer is empty and the summary is all zero.
C10_NoPersistence ==
    /\ returned.op = "detect" =>
          /\ detected_events = WindowEvents(osa.start_time, osa.end_time)
          /\ returned.value = detected_events
    /\ (returned.op = "summary" /\ osa.pc = "returned") =>
          returned.value = EventSummary(WindowEvents(osa.start_time, osa.end_time))
    /\ returned.op = "clear" => detected_events = <<>>
    /\ (returned.op = "summary" /\ osa.pc = "idle") =>
          returned.value = [total_events |-> 0, apnea_count |-> 0, hypopnea_count |-> 0]

\* C10 witness: on a study holding two events, a summary taken after a query
\* over part of the study reports one event.
C10_Witness ==
    /\ returned.op = "summary" /\ osa.pc = "returned"
    /\ returned.value.total_events = 1
    /\ Len(WindowEvents(signals.time[1], signals.time[Len(signals.time)])) = 2

(***************************************************************************)
(* SpecTwice: calls on one OSAAnalysis instance whose caller keeps a copy  *)
(* of a returned list and compares it with what a later call returns.      *)
(***************************************************************************)
\* The caller copies the list detect_respiratory_events has just handed back,
\* together with the bounds it passed.  (The list handed back is the buffer
\* itself; only a copy keeps the first call's events through the next call.)
KeepReturned ==
    /\ osa.pc = "returned"
    /\ returned.op = "detect"
    /\ kept' = [op |-> "detect", start_time |-> osa.start_time,
                end_time |-> osa.end_time, value |-> returned.value]
    /\ UNCHANGED <<settings, threads, raw_signals, sp_sample_rate, signals, sample_rate,
                   osa_sample_rate, detected_events, osa, returned, sa,
                   results>>

NextTwice ==
    \/ \E st \in QueryStarts, et \in QueryEnds : DetectBegin(st, et)
    \/ DetectStep
    \/ DetectReturn
    \/ ClearDetectedEvents
    \/ GetEventSummary
    \/ KeepReturned

SpecTwice == InitCalls /\ [][NextTwice]_vars

\* A detect_respiratory_events call made after the caller kept a list, with the
\* bounds of the call that list came from, has scanned its slice and is about
\* to return.
SameCallReturning ==
    /\ kept.op = "detect"
    /\ osa.pc = "scan"
    /\ ~(osa.i < osa.end_idx)
    /\ osa.start_time = kept.start_time
    /\ osa.end_time = kept.end_time

\* C11: a detect_respiratory_events call with the signals and the bounds of an
\* earlier call on the same instance returns a list of the same length whose
\* events have, one by one, the same type, start_time, end_time and duration,
\* whatever calls were made before the first or between the two.
C11_Idempotent ==
    [][ (SameCallReturning /\ osa'.pc = "returned") =>
           /\ returned'.op = "detect"
           /\ Len(returned'.value) = Len(kept.value)
           /\ \A k \in DOMAIN kept.value :
                 /\ returned'.value[k].type = kept.value[k].type
                 /\ returned'.value[k].start_time = kept.value[k].start_time
                 /\ returned'.value[k].end_time = kept.value[k].end_time
                 /\ returned'.value[k].duration = kept.value[k].duration
      ]_vars

\* C11 witness: the caller kept a list holding an event, and a later call with
\* the same bounds has scanned its slice and is about to return.
C11_Witness ==
    /\ SameCallReturning
    /\ Len(kept.value) >= 1
    /\ Len(detected_events) >= 1

(***************************************************************************)
(* Window bounds outside the data, checked under SpecCalls.                *)
(***************************************************************************)
FirstTime == signals.time[1]

LastTime == signals.time[Len(signals.time)]

\* The bounds clipped to the data.
ClipStart(start_time) == IF start_time < FirstTime THEN FirstTime ELSE start_time

ClipEnd(end_time) == IF end_time > LastTime THEN LastTime ELSE end_time

\* C12: a call whose bounds lie outside the data runs to its return with slice
\* indices inside the data and returns the events of the window clipped to the
\* data; a window lying entirely outside the data, or with start_time >
\* end_time, returns the empty list.
C12_BoundsClipped ==
    /\ osa.pc \in {"scan", "returned"} =>
          /\ osa.start_idx \in 0..Len(signals.time)
          /\ osa.end_idx \in 0..Len(signals.time)
          /\ osa.pc = "scan" => (osa.i < osa.end_idx => osa.i + 1 \in DOMAIN signals.time)
    /\ returned.op = "detect" =>
          /\ returned.value =
                WindowEvents(ClipStart(osa.start_time), ClipEnd(osa.end_time))
          /\ (\/ osa.end_time < FirstTime
              \/ osa.start_time > LastTime
              \/ osa.start_time > osa.end_time) => returned.value = <<>>

\* C12 witness: a call whose window starts before the first sample and ends
\* after the last one has returned an event.
C12_Witness ==
    /\ returned.op = "detect"
    /\ osa.start_time < FirstTime
    /\ osa.end_time > LastTime
    /\ Len(returned.value) >= 1

(***************************************************************************)
(* SpecStudy: analyze_full_study on every channel set of at most           *)
(* MaxStudyLen samples in which flow, body position and activity vary      *)
(* sample by sample.  The time axis is uniform, 10 s apart, or flat (first *)
(* and last time equal); the configured sample_rate is 0.1 Hz (a gate of   *)
(* one sample) or 0.2 Hz (a gate of two).                                  *)
(***************************************************************************)
MaxStudyLen == 3

\* Apnea band, hypopnea band, recovered.
StudyFlowVals == {5, 20, 100}

\* Position values: 0.0 (code 0), 1.0 (code 1), 4.0 (a code beyond the four).
StudyPosVals == {0, 100, 400}

\* Activity below and above the 0.2 threshold.
StudyActivityVals == {10, 50}

\* <<configured sample_rate, spacing of the time axis in ms>>.
StudyTimings == {<<100, 10000>>, <<200, 10000>>, <<200, 0>>}

InitStudy ==
    /\ raw_signals = NoSignals
    /\ \E n \in 1..MaxStudyLen, timing \in StudyTimings :
         \E flow \in [1..n -> StudyFlowVals], body_pos \in [1..n -> StudyPosVals],
            activity \in [1..n -> StudyActivityVals] :
            /\ signals = [time |-> [k \in 1..n |-> (k - 1) * timing[2]],
                          flow_n |-> flow,
                          body_pos_n |-> body_pos,
                          activity_n |-> activity,
                          spo2_n |-> [k \in 1..n |-> 80],
                          snore_n |-> [k \in 1..n |-> 0],
                          pulse_n |-> [k \in 1..n |-> 30]]
            /\ sample_rate = timing[1]
            /\ osa_sample_rate = timing[1]
    /\ Fresh

NextStudy ==
    \/ sa.pc = "idle" /\ AnalyzeBegin
    \/ AnalyzeStep
    \/ AnalyzeFinish

SpecStudy == InitStudy /\ [][NextStudy]_vars

\* last_time - first_time, in milliseconds: hours_in_bed * 3600000.
TibMs == signals.time[Len(signals.time)] - signals.time[1]

\* The first sample of the run of below-0.3 samples that ends just before k.
RunStart(k) ==
    CHOOSE j \in 1..(k - 1) :
        /\ \A m \in j..(k - 1) : signals.flow_n[m] < 30
        /\ j = 1 \/ signals.flow_n[j - 1] >= 30

\* The recovery samples that close an episode of the band `type` which passes
\* the gate of the configured sample_rate.
GatedClosings(type) ==
    {k \in 2..Len(signals.flow_n) :
        /\ signals.flow_n[k] >= 30
        /\ signals.flow_n[k - 1] < 30
        /\ k - RunStart(k) >= min_samples(sample_rate)
        /\ BandOf(signals.flow_n[RunStart(k)]) = type}

\* C13: total_apneas and hypopneas are the numbers of apnea and hypopnea
\* episodes that a recovery sample closed and that passed the gate, and when
\* hours_in_bed > 0, ahi = (total_apneas + hypopneas) / tib_hours.
C13_AhiFormula ==
    results # <<>> =>
       /\ results[1].total_apneas = Cardinality(GatedClosings("Apnea"))
       /\ results[1].hypopneas = Cardinality(GatedClosings("Hypopnea"))
       /\ results[1].tib_hours = Frac(TibMs, 3600000)
       /\ TibMs > 0 =>
             results[1].ahi =
                Frac((results[1].total_apneas + results[1].hypopneas) * 3600000, TibMs)

\* C13 witness: a study of 20 s, scanned with a gate of two samples, in which
\* one hypopnea was counted: an AHI of 180 per hour.
C13_Witness ==
    /\ results # <<>>
    /\ TibMs = 20000
    /\ sa.min_samples = 2
    /\ results[1].total_apneas = 0
    /\ results[1].hypopneas = 1
    /\ results[1].ahi = Frac(180, 1)

(***************************************************************************)
(* SpecOxi: analyze_full_study on every channel set of at most MaxOxiLen   *)
(* samples in which flow and SpO2 vary sample by sample and snore is quiet  *)
(* or loud throughout.  The configured sample_rate is 0.1 Hz (a gate of    *)
(* one sample); the time axis is 10 s apart, half an hour apart, or flat.  *)
(***************************************************************************)
MaxOxiLen == 3

\* Apnea band; 0.3, the lower edge of the flow-limitation band; 0.5, its upper
\* edge.
OxiFlowVals == {5, 30, 50}

\* Normalized SpO2: 0.19, 0.40, 0.60 and 0.61 reconstruct to 87.85, 91.0, 94.0
\* and 94.15.
OxiSpo2Vals == {19, 40, 60, 61}

\* Snore below and above the 0.7 threshold.
OxiSnoreVals == {0, 80}

\* Spacing of the time axis, in ms.
OxiPeriods == {0, 10000, 1800000}

InitOxi ==
    /\ raw_signals = NoSignals
    /\ \E n \in 1..MaxOxiLen, period \in OxiPeriods :
         \E flow \in [1..n -> OxiFlowVals], spo2 \in [1..n -> OxiSpo2Vals],
            snore \in {[k \in 1..n |-> v] : v \in OxiSnoreVals} :
            /\ signals = [time |-> [k \in 1..n |-> (k - 1) * period],
                          flow_n |-> flow,
                          body_pos_n |-> [k \in 1..n |-> 0],
                          activity_n |-> [k \in 1..n |-> 50],
                          spo2_n |-> spo2,
                          snore_n |-> snore,
                          pulse_n |-> [k \in 1..n |-> 30]]
    /\ sample_rate = 100
    /\ osa_sample_rate = 100
    /\ Fresh

NextOxi ==
    \/ sa.pc = "idle" /\ AnalyzeBegin
    \/ AnalyzeStep
    \/ AnalyzeFinish

SpecOxi == InitOxi /\ [][NextOxi]_vars

\* The samples inside the flow-limitation band.
FlowLimitedSamples ==
    {k \in DOMAIN signals.flow_n : signals.flow_n[k] >= 30 /\ signals.flow_n[k] < 50}

\* C14: flow_limitations is the number of samples with 0.3 <= f < 0.5, whether
\* or not the sample also closes an episode; when hours_in_bed > 0,
\* rdi = (total_apneas + hypopneas + flow_limitations) / tib_hours; and
\* rdi >= ahi.
C14_FlowLimitationTally ==
    /\ sa.pc \in {"scan", "done"} =>
          sa.flow_limitations = Cardinality({k \in FlowLimitedSamples : k <= sa.i})
    /\ results # <<>> =>
          /\ results[1].flow_limitations = Cardinality(FlowLimitedSamples)
          /\ TibMs > 0 =>
                results[1].rdi =
                   Frac((results[1].total_apneas + results[1].hypopneas
                            + results[1].flow_limitations) * 3600000, TibMs)
          /\ ~FracLess(results[1].rdi, results[1].ahi)

\* C14 witness: hours_in_bed > 0, a sample at 0.3 closed a counted episode and
\* was tallied, and a sample at 0.5 was not tallied.
C14_Witness ==
    /\ results # <<>>
    /\ TibMs > 0
    /\ results[1].flow_limitations = 1
    /\ results[1].total_apneas = 1
    /\ \E k \in 2..Len(signals.flow_n) :
          signals.flow_n[k] = 30 /\ signals.flow_n[k - 1] < 30
    /\ \E k \in DOMAIN signals.flow_n : signals.flow_n[k] = 50
    /\ FracLess(results[1].ahi, results[1].rdi)

\* C15: on a study whose first and last time values are equal, the analysis
\* returns a mapping with tib_hours = 0 and ahi, rdi, desat_index and
\* snore_index all 0, whatever the channels hold.
C15_DegenerateStudy ==
    (results # <<>> /\ TibMs = 0) =>
       /\ results[1].tib_hours = Frac(0, 1)
       /\ results[1].ahi = Frac(0, 1)
       /\ results[1].rdi = Frac(0, 1)
       /\ results[1].desat_index = Frac(0, 1)
       /\ results[1].snore_index = Frac(0, 1)

\* C15 witness: the analysis has returned on a three-sample study with a flat
\* time axis that holds a counted apnea, a flow-limitation sample, a
\* desaturation and loud snoring.
C15_Witness ==
    /\ results # <<>>
    /\ TibMs = 0
    /\ Len(signals.time) = 3
    /\ results[1].total_apneas >= 1
    /\ results[1].flow_limitations >= 1
    /\ results[1].desat_count >= 1
    /\ \E k \in DOMAIN signals.snore_n : signals.snore_n[k] > 70

\* Reconstructed SpO2 of sample k, in hundredths of a point.
ReconstructedSpo2(k) == 8500 + 15 * signals.spo2_n[k]

\* The samples that follow a single-step drop of more than 3 points.
DropSamples ==
    {k \in 2..Len(signals.spo2_n) :
        ReconstructedSpo2(k - 1) - ReconstructedSpo2(k) > 300}

\* C19: desat_count is the number of samples, the first excluded, that lie
\* more than 3 points below their predecessor (a drop of exactly 3 is not
\* counted); desat_index = desat_count / hours_in_bed when hours_in_bed > 0;
\* two such drops in one hour give a desat_index of 2.
C19_DesaturationCount ==
    results # <<>> =>
       /\ results[1].desat_count = Cardinality(DropSamples)
       /\ TibMs > 0 =>
             results[1].desat_index = Frac(results[1].desat_count * 3600000, TibMs)
       /\ (TibMs = 3600000 /\ Cardinality(DropSamples) = 2) =>
             results[1].desat_index = Frac(2, 1)

\* C19 witness: one hour in bed and two drops, 94.15 -> 91.0 -> 87.85.
C19_Witness ==
    /\ results # <<>>
    /\ TibMs = 3600000
    /\ signals.spo2_n = <<61, 40, 19>>
    /\ results[1].desat_count = 2
    /\ results[1].desat_index = Frac(2, 1)

(***************************************************************************)
(* Per-stage indices and bucketing, checked under SpecStudy.               *)
(***************************************************************************)
\* C16: when hours_in_bed <= 0, rem_ahi and nrem_ahi are both 0, whatever the
\* stage fractions; and a stage whose fraction is 0 has a per-stage AHI of 0.
C16_StageIndicesGuarded ==
    results # <<>> =>
       /\ TibMs <= 0 =>
             /\ results[1].rem_ahi = Frac(0, 1)
             /\ results[1].nrem_ahi = Frac(0, 1)
       /\ results[1].rem_percent = Frac(0, 1) => results[1].rem_ahi = Frac(0, 1)
       /\ results[1].nrem_percent = Frac(0, 1) => results[1].nrem_ahi = Frac(0, 1)

\* The position code of sample k: int() of the channel value.
PosCode(k) == signals.body_pos_n[k] \div 100

\* Sample k lies in a REM-like period: activity below 0.2.
RemLike(k) == signals.activity_n[k] < 20

\* C17: every episode that a recovery sample closes and that passes the gate
\* is counted once under the position at the recovery sample (supine iff the
\* code is 0) and once under the stage at the recovery sample (REM-like iff
\* activity < 0.2); no other episode is counted anywhere.  Hence supine +
\* non-supine = REM + NREM = total, for apneas and for hypopneas.
C17_BucketedAtEventEnd ==
    /\ sa.pc \in {"scan", "done"} =>
          /\ sa.position_events.supine.apneas + sa.position_events.non_supine.apneas
                = sa.apneas
          /\ sa.rem_apneas + sa.nrem_apneas = sa.apneas
          /\ sa.position_events.supine.hypopneas
                + sa.position_events.non_supine.hypopneas = sa.hypopneas
          /\ sa.rem_hypopneas + sa.nrem_hypopneas = sa.hypopneas
    /\ results # <<>> =>
          LET r == results[1]
              A == GatedClosings("Apnea")
              H == GatedClosings("Hypopnea")
          IN  /\ r.supine_apneas = Cardinality({k \in A : PosCode(k) = 0})
              /\ r.non_supine_apneas = Cardinality({k \in A : PosCode(k) # 0})
              /\ r.rem_apneas = Cardinality({k \in A : RemLike(k)})
              /\ r.nrem_apneas = Cardinality({k \in A : ~RemLike(k)})
              /\ r.supine_hypopneas = Cardinality({k \in H : PosCode(k) = 0})
              /\ r.non_supine_hypopneas = Cardinality({k \in H : PosCode(k) # 0})
              /\ r.rem_hypopneas = Cardinality({k \in H : RemLike(k)})
              /\ r.nrem_hypopneas = Cardinality({k \in H : ~RemLike(k)})
              /\ r.supine_apneas + r.non_supine_apneas = r.total_apneas
              /\ r.rem_apneas + r.nrem_apneas = r.total_apneas
              /\ r.supine_hypopneas + r.non_supine_hypopneas = r.hypopneas
              /\ r.rem_hypopneas + r.nrem_hypopneas = r.hypopneas

\* C17 witness: an apnea that opened supine in an NREM-like period and ended
\* non-supine in a REM-like period was counted as non-supine and REM.
C17_Witness ==
    /\ results # <<>>
    /\ results[1].total_apneas = 1
    /\ results[1].non_supine_apneas = 1
    /\ results[1].rem_apneas = 1
    /\ \E k \in GatedClosings("Apnea") :
          /\ PosCode(RunStart(k)) = 0 /\ PosCode(k) # 0
          /\ ~RemLike(RunStart(k)) /\ RemLike(k)

\* The keys analyze_full_study assigns.
ResultKeys ==
    {"tib_hours", "patient_id", "recording_date", "ahi", "rdi",
     "obstructive_apneas", "central_apneas", "hypopneas", "total_apneas",
     "flow_limitations", "max_apnea_duration", "max_hypopnea_duration",
     "avg_apnea_duration", "avg_hypopnea_duration", "supine_percent",
     "left_percent", "right_percent", "prone_percent", "other_positions",
     "supine_apneas", "supine_hypopneas", "non_supine_apneas",
     "non_supine_hypopneas", "rem_percent", "nrem_percent", "rem_apneas",
     "rem_hypopneas", "nrem_apneas", "nrem_hypopneas", "rem_ahi", "nrem_ahi",
     "artifact_percent", "min_spo2", "avg_spo2", "baseline_spo2", "desat_count",
     "desat_index", "time_below_90", "snore_index", "min_hr", "max_hr", "avg_hr"}

\* C20: every mapping analyze_full_study returns has the same set of keys, with
\* no events, with hours_in_bed = 0, with constant channels and with position
\* codes beyond the four alike.
C20_SameKeysAlways ==
    results # <<>> => DOMAIN results[1] = ResultKeys

\* C20 witness: the analysis has returned on a study with hours_in_bed = 0, no
\* counted event and a position code beyond the four.
C20_Witness ==
    /\ results # <<>>
    /\ TibMs = 0
    /\ Len(signals.time) > 1
    /\ results[1].total_apneas + results[1].hypopneas = 0
    /\ 4 \in DOMAIN results[1].other_positions
    /\ {"ahi", "rdi", "rem_ahi", "nrem_ahi", "desat_index", "snore_index"}
          \subseteq DOMAIN results[1]

(***************************************************************************)
(* SpecPipeline: a raw table of at most MaxPipeLen samples, 10 s apart,    *)
(* whose body-position codes and airflow vary sample by sample, is         *)
(* normalized by the SignalProcessor and then analysed whole with a        *)
(* configured sample_rate of 0.1 Hz (a gate of one sample).                *)
(***************************************************************************)
MaxPipeLen == 3

\* Raw body-position codes: the four with a fixed meaning, and one beyond.
PipePosCodes == {0, 1, 2, 3, 4}

\* Raw airflow amplitudes, in the units of the recording.
PipeFlowVals == {10, 200}

InitPipeline ==
    /\ \E n \in 1..MaxPipeLen :
         \E body_pos \in [1..n -> PipePosCodes], flow \in [1..n -> PipeFlowVals] :
            raw_signals = [time |-> [k \in 1..n |-> (k - 1) * 10000],
                           flow |-> flow,
                           body_pos |-> body_pos,
                           activity |-> [k \in 1..n |-> 0],
                           spo2 |-> [k \in 1..n |-> 95],
                           snore |-> [k \in 1..n |-> 0],
                           pulse |-> [k \in 1..n |-> 60]]
    /\ signals = NoSignals
    /\ sample_rate = 100
    /\ osa_sample_rate = 100
    /\ Fresh

NextPipeline ==
    \/ signals = NoSignals /\ ComputeSamplingRate
    \/ signals = NoSignals /\ NormalizeAllSignals
    \/ signals # NoSignals /\ sa.pc = "idle" /\ AnalyzeBegin
    \/ AnalyzeStep
    \/ AnalyzeFinish

SpecPipeline == InitPipeline /\ [][NextPipeline]_vars

\* The samples whose raw body-position code is c.
RawCodeSamples(c) == {k \in DOMAIN raw_signals.body_pos : raw_signals.body_pos[k] = c}

RawCodePercent(c) ==
    Percent(Cardinality(RawCodeSamples(c)), Len(raw_signals.body_pos))

\* C18: after normalize_all_signals and analyze_full_study, supine_percent,
\* left_percent, right_percent and prone_percent are the percentages of the
\* samples whose raw code is 0, 1, 2 and 3; every raw code >= 4 that occurs is
\* a key of other_positions with its percentage; and the supine event counts
\* are the counted events whose recovery sample has raw code 0.
C18_PositionCodesKeepMeaning ==
    results # <<>> =>
       LET r == results[1]
       IN  /\ r.supine_percent = RawCodePercent(0)
           /\ r.left_percent = RawCodePercent(1)
           /\ r.right_percent = RawCodePercent(2)
           /\ r.prone_percent = RawCodePercent(3)
           /\ \A c \in PipePosCodes :
                 (c >= 4 /\ RawCodeSamples(c) # {}) =>
                    /\ c \in DOMAIN r.other_positions
                    /\ r.other_positions[c] = RawCodePercent(c)
           /\ r.supine_apneas =
                 Cardinality(GatedClosings("Apnea") \cap RawCodeSamples(0))
           /\ r.supine_hypopneas =
                 Cardinality(GatedClosings("Hypopnea") \cap RawCodeSamples(0))

(***************************************************************************)
(* SpecAgain: analyze_full_study called again and again on one             *)
(* SleepAnalysis instance, on any study of at most MaxAgainLen samples,    *)
(* by a caller that holds on to a mapping it was returned.                 *)
(***************************************************************************)
MaxAgainLen == 2

AgainFlowVals == {5, 20, 100}

\* The studies the caller may pass: 10 s apart, analysed at 0.1 Hz.
AgainStudies ==
    UNION {{Study(n, 100, flow) : flow \in [1..n -> AgainFlowVals]} : n \in 1..MaxAgainLen}

InitAgain ==
    /\ raw_signals = NoSignals
    /\ signals \in AgainStudies
    /\ sample_rate = 100
    /\ osa_sample_rate = 100
    /\ Fresh

\* The caller turns to another study: the next call is passed other signals,
\* and the call that returned last is no longer the one the signals belong to.
ChooseSignals ==
    /\ NoCallRunning
    /\ signals' \in AgainStudies
    /\ sa' = [sa EXCEPT !.pc = "idle"]
    /\ UNCHANGED <<settings, threads, raw_signals, sp_sample_rate, sample_rate, osa_sample_rate, kept,
                   detected_events, osa, returned, results>>

\* The caller holds on to the mapping the call that has just returned gave it,
\* with the signals it passed.
KeepResults ==
    /\ sa.pc = "done"
    /\ kept = NothingKept
    /\ results # <<>>
    /\ kept' = [op |-> "analyze", start_time |-> 0, end_time |-> 0,
                value |-> <<signals, results[1]>>]
    /\ UNCHANGED <<settings, threads, raw_signals, sp_sample_rate, signals, sample_rate,
                   osa_sample_rate, detected_events, osa, returned, sa, results>>

NextAgain ==
    \/ AnalyzeBegin
    \/ AnalyzeStep
    \/ AnalyzeFinish
    \/ ChooseSignals
    \/ KeepResults

SpecAgain == InitAgain /\ [][NextAgain]_vars

\* The locals a scan of the whole study leaves, started from new counters.
RECURSIVE SaScanFrom(_, _, _)
SaScanFrom(loc, sig, rate) ==
    IF loc.i < Len(sig.flow_n) THEN SaScanFrom(SaStepSample(loc, sig, rate), sig, rate)
    ELSE loc

\* What a new SleepAnalysis(rate) returns for sig.
NewInstanceResults(sig, rate) ==
    SaResults(SaScanFrom([SaIdleFrame EXCEPT !.pc = "scan",
                                             !.min_samples = min_samples(rate)],
                         sig, rate), sig)

\* C21: every call returns the mapping a new instance would return for the
\* signals it is passed, so a call with the signals of an earlier call returns
\* a mapping equal to the one the caller holds; and no step of a call changes
\* the mapping the caller holds, the input channels or the instance's
\* sample_rate.
C21_NoStateNoSideEffect ==
    [][ /\ (sa.pc = "scan" /\ sa'.pc = "done") =>
             /\ results'[1] = NewInstanceResults(signals, sample_rate)
             /\ (kept.op = "analyze" /\ kept.value[1] = signals) =>
                    results'[1] = kept.value[2]
        /\ (sa.pc = "scan" \/ sa'.pc = "scan") =>
             /\ kept' = kept
             /\ signals' = signals
             /\ sample_rate' = sample_rate
      ]_vars

\* C21 witness: the caller holds a mapping with a counted event, a call on
\* other signals has returned since, and a call with the signals of the held
\* mapping has scanned the study and is about to return.
C21_Witness ==
    /\ kept.op = "analyze"
    /\ kept.value[2].total_apneas + kept.value[2].hypopneas >= 1
    /\ results # <<>> /\ results[1] # kept.value[2]
    /\ kept.value[1] = signals
    /\ sa.pc = "scan" /\ ~(sa.i < Len(signals.flow_n))

(***************************************************************************)
(* SpecNormalize: a raw table of at most MaxNormLen samples, 0.1 s apart,  *)
(* whose airflow channel holds numbers, missing values, infinities and     *)
(* text, or is null, is loaded and normalized by the SignalProcessor.      *)
(***************************************************************************)
MaxNormLen == 3

NormCells == {Num(0), Num(1), Num(3), NaN, PosInf, NegInf, Text}

\* The tables: a channel as long as the time axis, or a null channel.
NormTables ==
    UNION {{[time |-> [k \in 1..n |-> (k - 1) * 100], flow |-> flow] :
               flow \in [1..n -> NormCells] \cup {<<>>}} : n \in 0..MaxNormLen}

InitNormalize ==
    /\ raw_signals \in NormTables
    /\ signals = NoSignals
    /\ sample_rate = 10000
    /\ osa_sample_rate = 10000
    /\ Fresh

\* Another table is loaded.
LoadRawTable ==
    /\ signals # NoSignals
    /\ raw_signals' \in NormTables
    /\ signals' = NoSignals
    /\ UNCHANGED <<settings, threads, sp_sample_rate, sample_rate, osa_sample_rate, kept,
                   detected_events, osa, returned, sa, results>>

NextNormalize ==
    \/ signals = NoSignals /\ NormalizeAllSignalsRaw
    \/ LoadRawTable

SpecNormalize == InitNormalize /\ [][NextNormalize]_vars

\* The channel normalize was handed has values that differ after cleaning.
NormalizedVarying ==
    /\ signals # NoSignals
    /\ Len(raw_signals.flow) > 0
    /\ MinOf(Cleaned(raw_signals.flow)) # MaxOf(Cleaned(raw_signals.flow))

\* C22: for a channel whose cleaned values are not all equal, the output has
\* the channel's length, out[k] is (x[k] - min) / (max - min) (to the
\* hundredth below) and lies in [0, 1], every position holding the minimum
\* maps to 0 and every one holding the maximum to 1, and the output is ordered
\* as the cleaned input is.
C22_MinMaxNormalization ==
    NormalizedVarying =>
       LET x == Cleaned(raw_signals.flow)
           out == signals.flow_n
           lo == MinOf(x)
           hi == MaxOf(x)
       IN  /\ Len(out) = Len(x)
           /\ \A k \in DOMAIN x :
                 /\ out[k] \in 0..100
                 /\ out[k] * (hi - lo) <= (x[k] - lo) * 100
                 /\ (x[k] - lo) * 100 < (out[k] + 1) * (hi - lo)
                 /\ x[k] = lo => out[k] = 0
                 /\ x[k] = hi => out[k] = 100
           /\ \A j, k \in DOMAIN x : x[j] <= x[k] => out[j] <= out[k]

\* A channel with a missing or infinite value between two different numbers,
\* the smaller not 0, has been normalized to 0, 1 and a value in between.
C22_Witness ==
    /\ NormalizedVarying
    /\ \E j, k \in DOMAIN raw_signals.flow :
          /\ raw_signals.flow[j] \in {NaN, PosInf}
          /\ raw_signals.flow[k] = Num(1)
    /\ \E j, k, m \in DOMAIN signals.flow_n :
          /\ signals.flow_n[j] = 0
          /\ signals.flow_n[k] = 100
          /\ signals.flow_n[m] \in 1..99

\* The channel normalize was handed has at least one cell, and its values are
\* all equal after cleaning.
NormalizedDegenerate ==
    /\ signals # NoSignals
    /\ Len(raw_signals.flow) > 0
    /\ MinOf(Cleaned(raw_signals.flow)) = MaxOf(Cleaned(raw_signals.flow))

\* C23: a channel of N >= 1 cells whose values are all equal after cleaning
\* (a constant channel, or one whose every cell is missing, infinite or text
\* and is filled with 0.0) is normalized to N values of exactly 0.5; no
\* quotient 0.0 / 0.0 (nan) is among them.
C23_DegenerateChannel ==
    NormalizedDegenerate =>
       signals.flow_n = [k \in 1..Len(raw_signals.flow) |-> 50]

\* Both kinds have been normalized: a channel with no number in it, and a
\* channel whose missing value was filled with the constant around it.
C23_Witness ==
    /\ NormalizedDegenerate
    /\ Len(raw_signals.flow) >= 2
    /\ \/ \A k \in DOMAIN raw_signals.flow : ~IsNum(raw_signals.flow[k])
       \/ /\ \E k \in DOMAIN raw_signals.flow : raw_signals.flow[k] = Num(3)
          /\ \E k \in DOMAIN raw_signals.flow : raw_signals.flow[k] = NegInf
    /\ signals.flow_n[2] = 50

\* C24: every channel normalize_all_signals returns is as long as the time
\* axis.
C24_AlignedWithTimeAxis ==
    signals # NoSignals =>
       /\ Len(signals.flow_n) = Len(signals.time)
       /\ Len(signals.flow_plot) = Len(signals.time)

(***************************************************************************)
(* SpecRate: time axes of at most MaxRateLen cells, whose steps may be     *)
(* uneven, zero or negative and which may hold text, are loaded one after  *)
(* another and the SignalProcessor estimates the rate of each.             *)
(***************************************************************************)
MaxRateLen == 4

\* Times in ms, and text.
RateCells == {Num(0), Num(100), Num(300), Text}

RateTables ==
    UNION {{[time |-> time] : time \in [1..n -> RateCells]} : n \in 0..MaxRateLen}

InitRate ==
    /\ raw_signals \in RateTables
    /\ signals = NoSignals
    /\ sample_rate = 10000
    /\ osa_sample_rate = 10000
    /\ Fresh

\* Another time axis is loaded.
LoadTimeAxis ==
    /\ returned.op = "compute_sampling_rate"
    /\ raw_signals' \in RateTables
    /\ returned' = NothingReturned
    /\ UNCHANGED <<settings, threads, sp_sample_rate, signals, sample_rate, osa_sample_rate, kept,
                   detected_events, osa, sa, results>>

NextRate ==
    \/ ComputeSamplingRateRaw
    \/ LoadTimeAxis

SpecRate == InitRate /\ [][NextRate]_vars

\* The time axis has at least 3 cells, all numbers.
RateAxisUsable ==
    /\ Len(raw_signals.time) >= 3
    /\ \A k \in DOMAIN raw_signals.time : IsNum(raw_signals.time[k])

\* The median of the consecutive time steps, in ms, as a fraction.
MedianStep ==
    MedianOf([k \in 1..(Len(raw_signals.time) - 1) |->
                 raw_signals.time[k + 1].v - raw_signals.time[k].v])

\* C25: when compute_sampling_rate has returned, sample_rate is 1 / median
\* step (to the mHz below) if the axis has at least 3 samples and the median
\* step is positive, and exactly 10.0 Hz if the axis is shorter, the median
\* step is not positive or the computation failed; it is never <= 0.
C25_SampleRateEstimation ==
    returned.op = "compute_sampling_rate" =>
       /\ sp_sample_rate > 0
       /\ IF RateAxisUsable /\ MedianStep[1] > 0
          THEN /\ sp_sample_rate * MedianStep[1] <= 1000000 * MedianStep[2]
               /\ 1000000 * MedianStep[2] < (sp_sample_rate + 1) * MedianStep[1]
          ELSE sp_sample_rate = 10000

\* The rate of an uneven axis of 4 samples has been estimated as 5 Hz: its
\* median step is 0.2 s, its mean step is not.
C25_Witness ==
    /\ returned.op = "compute_sampling_rate"
    /\ RateAxisUsable
    /\ Len(raw_signals.time) = 4
    /\ MedianStep = Frac(200, 1)
    /\ raw_signals.time[4].v - raw_signals.time[1].v = 200
    /\ sp_sample_rate = 5000

(***************************************************************************)
(* SpecThreads: two threads call detect_respiratory_events on one          *)
(* OSAAnalysis instance, on every study of at most MaxThreadLen samples    *)
(* 10 s apart; their calls may follow one another or interleave sample by  *)
(* sample.                                                                 *)
(***************************************************************************)
MaxThreadLen == 4

ThreadFlowVals == {5, 100}

InitThreads ==
    /\ raw_signals = NoSignals
    /\ \E n \in 1..MaxThreadLen :
         \E flow \in [1..n -> ThreadFlowVals] : signals = Study(n, 100, flow)
    /\ sample_rate = 100
    /\ osa_sample_rate = 100
    /\ Fresh

\* The windows a thread may pass: from one sample to a later one.
ThreadWindows ==
    {w \in (1..Len(signals.time)) \X (1..Len(signals.time)) : w[1] < w[2]}

NextThreads ==
    \/ \E th \in Threads, w \in ThreadWindows :
          ThreadDetectBegin(th, signals.time[w[1]], signals.time[w[2]])
    \/ \E th \in Threads : ThreadDetectStep(th)
    \/ \E th \in Threads : ThreadDetectReturn(th)

SpecThreads == InitThreads /\ [][NextThreads]_vars

\* The events of the window of thread th's call.
ThreadWindowEvents(th) ==
    WindowEvents(threads[th].osa.start_time, threads[th].osa.end_time)

EventSet(buf) == {buf[k] : k \in DOMAIN buf}

\* C26: a call that ran with no other thread's call overlapping it returned
\* exactly the events of its own window.  (That an overlapped call can
\* return something else is what the witness reaches.)
C26_SerializedCallsReturnOwnWindow ==
    \A th \in Threads :
       (threads[th].returned.op = "detect" /\ ~threads[th].overlapped) =>
          threads[th].returned.value = ThreadWindowEvents(th)

\* A call that was overlapped has returned a list that misses an event of its
\* own window and contains an event of the other call's window that is not in
\* its own.
C26_Witness ==
    \E th \in Threads, o \in Threads :
       /\ o # th
       /\ threads[th].returned.op = "detect"
       /\ threads[th].overlapped
       /\ threads[o].osa.pc # "idle"
       /\ EventSet(ThreadWindowEvents(th)) \ EventSet(threads[th].returned.value) # {}
       /\ (EventSet(threads[th].returned.value) \cap EventSet(ThreadWindowEvents(o)))
             \ EventSet(ThreadWindowEvents(th)) # {}

\* The times of the samples the call that returned has scanned.
ScannedTimes == {signals.time[k] : k \in (osa.start_idx + 1)..osa.end_idx}

\* C27: in the list detect_respiratory_events returns, every event starts
\* before it ends, starts and ends at the time of a scanned sample, and ends
\* strictly before the next event of the list starts.
C27_EventsWellFormedAndOrdered ==
    returned.op = "detect" =>
       /\ \A k \in DOMAIN returned.value :
             /\ returned.value[k].start_time < returned.value[k].end_time
             /\ returned.value[k].start_time \in ScannedTimes
             /\ returned.value[k].end_time \in ScannedTimes
       /\ \A k \in 1..(Len(returned.value) - 1) :
             returned.value[k].end_time < returned.value[k + 1].start_time

\* A call has returned two events.
C27_Witness ==
    /\ returned.op = "detect"
    /\ Len(returned.value) = 2
    /\ returned.value[1].end_time < returned.value[2].start_time
    /\ osa.pc = "returned"

(***************************************************************************)
(* SpecApp: the main window as constructed (SleepAnalysis() with its       *)
(* default rate of 10 Hz) loads a file of 9, 10 or 12 columns and at most  *)
(* MaxAppLen rows, sampled every 0.1 s or every 10 s, and save_report      *)
(* analyses the study whole.                                               *)
(***************************************************************************)
MaxAppLen == 3

ColumnCounts == {9, 10, 12}

\* Spacing of the file's time column, in ms.
AppSteps == {100, 10000}

\* Raw airflow amplitudes.
AppFlowVals == {10, 200}

InitApp ==
    /\ raw_signals = NoSignals
    /\ signals = NoSignals
    /\ sample_rate = 10000
    /\ osa_sample_rate = 10000
    /\ Fresh

NextApp ==
    \/ \E num_columns \in ColumnCounts, n \in 1..MaxAppLen, step \in AppSteps :
          \E flow \in [1..n -> AppFlowVals] :
             LoadData(num_columns, [k \in 1..n |-> (k - 1) * step], flow)
    \/ signals # NoSignals /\ sa.pc = "idle" /\ AnalyzeBegin
    \/ AnalyzeStep
    \/ AnalyzeFinish

SpecApp == InitApp /\ [][NextApp]_vars

\* C28: in load_data followed by save_report, the whole-study analysis gates
\* episodes with the rate estimated from the study's time axis: min_samples is
\* 10 s of samples at that rate, and the mapping returned is the one an
\* analysis at that rate returns.
C28_GateUsesEstimatedRate ==
    /\ sa.pc \in {"scan", "done"} => sa.min_samples = min_samples(sp_sample_rate)
    /\ sa.pc = "done" => results[1] = NewInstanceResults(signals, sp_sample_rate)

\* C29: analyze_full_study raises on no channel set the loader and
\* normalize_all_signals produce, and returns the full mapping.
C29_EveryLoaderOutputAnalyzable ==
    /\ sa.pc # "raised"
    /\ sa.pc = "done" => DOMAIN results[1] = DOMAIN SaResults(SaIdleFrame, signals)

(***************************************************************************)
(* SpecNav: after load_data of a study that starts at NavStart and ends at *)
(* one of NavEnds, the user presses navigation keys, moves the slider and  *)
(* clicks frame-size buttons in any order.                                 *)
(***************************************************************************)
NavStart == 2000

\* Ends of the studies: spans of 7 s, 45 s and 400 s.
NavEnds == {9000, 47000, 402000}

SliderValues == {0, 1, 500, 999, 1000}

InitNav ==
    /\ raw_signals = NoSignals
    /\ signals = NoSignals
    /\ sample_rate = 10000
    /\ osa_sample_rate = 10000
    /\ sp_sample_rate = 10000
    /\ detected_events = <<>>
    /\ osa = OsaIdleFrame
    /\ returned = NothingReturned
    /\ sa = SaIdleFrame
    /\ results = <<>>
    /\ kept = NothingKept
    /\ threads = NoThreads
    /\ \E data_end \in NavEnds : settings = LoadedSettings(<<NavStart, data_end>>)

NextNav ==
    \/ \E key \in {"Left", "Right", "Home", "End"} : HandleKeyPress(key)
    \/ \E seconds \in FRAME_SIZES : SetFrameSizeFromButton(seconds)
    \/ \E value \in SliderValues : OnSliderChanged(value)

SpecNav == InitNav /\ [][NextNav]_vars

\* C30: whatever the user does, the view window starts inside the study,
\* data_start_time <= start_time <= max(data_start_time, data_end_time -
\* window_size), and the study bounds are those load_data set.
C30_WindowStaysInsideStudy ==
    /\ settings.data_start_time <= settings.start_time
    /\ settings.start_time <=
          Max(settings.data_start_time,
              settings.data_end_time - settings.window_size)
    /\ settings.data_start_time = NavStart
    /\ settings.data_end_time \in NavEnds

====
